---- MODULE Spec2Model ----
(***************************************************************************)
(* Model of the local drive index of audit_checker.py: build_file_index    *)
(* (cache check, parallel scan of the drives on a process pool, index      *)
(* construction, cache write) and the cache file it reads and writes.      *)
(*                                                                         *)
(* Strings are sequences of one-character strings, so that sorting,        *)
(* lower-casing and the pathlib name/stem split are computed, not assumed. *)
(* Time is in seconds; the code's  age_h = (now - mtime) / 3600  compared   *)
(* with cache_max_age_hours is modelled as  now - mtime  compared with     *)
(* cache_max_age_hours * 3600.                                             *)
(*                                                                         *)
(* Further specifications share the module, each over its own variables    *)
(* while the others rest: MatchSpec (match_course_paths,                   *)
(* find_asset_in_candidates and the indexed lookup), ScanSpec              *)
(* (_scan_single_drive on a directory tree), DlSpec (main of               *)
(* downloader.py over its state file and two disks), AuditSpec (main of    *)
(* audit_checker.py and the download step of run_audit), ReportSpec (the   *)
(* row colour of generate_report), RetrySpec (download_drive_folder) and   *)
(* CollectSpec (the as_completed loop with the completion order).          *)
(***************************************************************************)
EXTENDS Integers, Sequences, FiniteSets, TLC

(* ------------------------------ bounds --------------------------------- *)

\* longest drive list passed to build_file_index
MaxDrives == 2
\* largest max_workers passed to build_file_index
MaxWorkers == 2
\* number of clock ticks the model lets pass
MaxTicks == 1

(* ------------------------------ strings -------------------------------- *)

\* code points of the characters used in the modelled paths (Python's str
\* comparison orders strings by code point)
CharCode ==
    [c \in {" ", ".", "/", "A", "\\", "a", "b", "c", "d", "e", "x"} |->
        CASE c = " " -> 32 [] c = "\\" -> 92
          [] c = "." -> 46 [] c = "/" -> 47 [] c = "A" -> 65
          [] c = "a" -> 97 [] c = "b" -> 98 [] c = "c" -> 99
          [] c = "d" -> 100 [] c = "e" -> 101 [] c = "x" -> 120]

\* str.lower() on one character
LowerChar(c) == IF c = "A" THEN "a" ELSE c

\* str.lower()
Lower(s) == [i \in 1..Len(s) |-> LowerChar(s[i])]

RECURSIVE StrLess(_, _)
\* Python's  a < b  on strings: lexicographic by code point
StrLess(a, b) ==
    IF b = <<>> THEN FALSE
    ELSE IF a = <<>> THEN TRUE
    ELSE IF CharCode[Head(a)] < CharCode[Head(b)] THEN TRUE
    ELSE IF CharCode[Head(a)] > CharCode[Head(b)] THEN FALSE
    ELSE StrLess(Tail(a), Tail(b))

RECURSIVE InsertSorted(_, _)
\* insert x into the sorted list s, after the elements not greater than x
InsertSorted(x, s) ==
    IF s = <<>> THEN <<x>>
    ELSE IF StrLess(x, Head(s)) THEN <<x>> \o s
    ELSE <<Head(s)>> \o InsertSorted(x, Tail(s))

RECURSIVE Sorted(_)
\* sorted(list) of strings
Sorted(s) ==
    IF s = <<>> THEN <<>>
    ELSE InsertSorted(s[Len(s)], Sorted(SubSeq(s, 1, Len(s) - 1)))

\* position of the last occurrence of character c in s, 0 when absent
\* (str.rfind, shifted to the 1-based positions of a sequence)
RFind(s, c) ==
    LET hits == {i \in 1..Len(s) : s[i] = c}
    IN  IF hits = {} THEN 0 ELSE CHOOSE i \in hits : \A j \in hits : j <= i

\* Path(path).name : the final component of the path
PathName(p) == SubSeq(p, RFind(p, "/") + 1, Len(p))

\* Path(path).stem : the name without its last suffix; a dot that is the
\* first or the last character of the name does not start a suffix
PathStem(p) ==
    LET name == PathName(p)
        i    == RFind(name, ".")
    IN  IF 1 < i /\ i < Len(name) THEN SubSeq(name, 1, i - 1) ELSE name

(* ------------------------- drives and their content -------------------- *)

DriveD == <<"/", "d">>
DriveE == <<"/", "e">>

\* what _scan_single_drive returns for a drive, in discovery order:
\* /d holds the folder Ab with the file c.x in it, /e holds the file ab.x
ScanSingleDrive(root) ==
    IF root = DriveD
    THEN << <<"/", "d", "/", "A", "b">>,
            <<"/", "d", "/", "A", "b", "/", "c", ".", "x">> >>
    ELSE << <<"/", "e", "/", "a", "b", ".", "x">> >>

(* ----------------------------- the index ------------------------------- *)

EmptyIndex == [k \in {} |-> <<>>]

\* index[key] = [path] : the entry replaces the list instead of extending it
IndexAppendOverwrite(index, key, path) ==
    [k \in DOMAIN index \cup {key} |->
        IF k = key THEN <<path>> ELSE index[k]]

\* index.setdefault(key, []).append(path)
IndexAppend(index, key, path) ==
    IF key \in DOMAIN index
    THEN [index EXCEPT ![key] = Append(@, path)]
    ELSE [k \in DOMAIN index \cup {key} |->
             IF k = key THEN <<path>> ELSE index[k]]

\* the body of the index loop for one path: both keys, full name first
IndexPath(index, path) ==
    LET full == Lower(PathName(path))
        stem == Lower(PathStem(path))
    IN  IndexAppend(IndexAppend(index, full, path), stem, path)

RECURSIVE BuildIndex(_)
\* the index loop over all_paths, in list order
BuildIndex(paths) ==
    IF paths = <<>> THEN EmptyIndex
    ELSE IndexPath(BuildIndex(SubSeq(paths, 1, Len(paths) - 1)),
                   paths[Len(paths)])

(* --------------------------- the cache file ---------------------------- *)

\* the three keys of the pickled dictionary
CacheKeys == {"drives", "index", "all_paths"}

\* seconds in an hour: the divisor that turns the file age into hours
SecondsPerHour == 3600

\* the clock advances in hours
TickSeconds == SecondsPerHour

\* the object pickle.dump writes
Snapshot(drives_key, index, paths) ==
    [kind |-> "dict", keys |-> CacheKeys,
     drives |-> drives_key, index |-> index, all_paths |-> paths]

\* file content pickle.load cannot decode (truncated, not a pickle)
Garbage ==
    [kind |-> "garbage", keys |-> {},
     drives |-> <<>>, index |-> EmptyIndex, all_paths |-> <<>>]

\* a well-formed pickle of an object that is not a dictionary
NotADict == [Garbage EXCEPT !.kind = "nondict"]

\* no cache file on disk
NoFile == [exists |-> FALSE, mtime |-> 0, data |-> Garbage]

\* a cache file with its modification time and its content
CacheFile(mtime, data) == [exists |-> TRUE, mtime |-> mtime, data |-> data]

\* a dictionary like data that lacks one key: without "drives" nothing else
\* of it is looked at, without "index" only "drives" is, and without
\* "all_paths" the other two entries are as in data
WithoutKey(data, key) ==
    [data EXCEPT !.keys = @ \ {key},
                 !.drives = IF key = "drives" THEN <<>> ELSE @,
                 !.index = IF key = "all_paths" THEN @ ELSE EmptyIndex,
                 !.all_paths = <<>>]

(* --------------------------- build_file_index -------------------------- *)

\* drives_key = drive_paths : the list is compared as given
DrivesKeyUnsorted(drive_paths) == drive_paths

\* drives_key = sorted(drive_paths)
DrivesKey(drive_paths) == Sorted(drive_paths)

\* age_h <= cache_max_age_hours
CacheFreshInclusive(age, max_age_hours) ==
    age <= max_age_hours * SecondsPerHour

\* age_h < cache_max_age_hours, with age_h = age / 3600
CacheFresh(age, max_age_hours) == age < max_age_hours * SecondsPerHour

\* the cache branch returns: the file exists, is fresh, unpickles to a
\* dictionary whose "drives" equals drives_key and which has an "index"
\* (a decoding error, a non-dictionary or a missing "index" raises inside
\* the try block and falls through to the rescan)
CacheHit(file, drives_key, t, max_age_hours) ==
    /\ file.exists
    /\ CacheFresh(t - file.mtime, max_age_hours)
    /\ file.data.kind = "dict"
    /\ "drives" \in file.data.keys
    /\ file.data.drives = drives_key
    /\ "index" \in file.data.keys

\* no value returned yet.  source (cache or scan), write (outcome of the
\* cache write) and replaced (the cache file the write found) record how the
\* value came about; the caller only gets index and all_paths
NoResult ==
    [status |-> "none", source |-> "none", write |-> "none",
     replaced |-> NoFile, index |-> EmptyIndex, all_paths |-> <<>>]

\* an exception leaving build_file_index
Raised == [NoResult EXCEPT !.status = "raised"]

\* return cached["index"], [] : the cached flat list is not handed back
CachedResultNoPaths(data) ==
    [status |-> "returned", source |-> "cache", write |-> "none",
     replaced |-> NoFile, index |-> data.index, all_paths |-> <<>>]

\* return cached["index"], cached.get("all_paths", [])
CachedResult(data) ==
    [status |-> "returned", source |-> "cache", write |-> "none",
     replaced |-> NoFile, index |-> data.index,
     all_paths |-> IF "all_paths" \in data.keys THEN data.all_paths ELSE <<>>]

Min(a, b) == IF a < b THEN a ELSE b
Max(a, b) == IF a > b THEN a ELSE b

\* workers = max(1, max_workers) : the number of drives is not taken into
\* account
PoolSizeNoMin(mw, n) == Max(1, mw)

\* workers = max(1, min(max_workers, len(drive_paths)))
PoolSize(mw, n) == Max(1, Min(mw, n))

\* a loop body in which a failed future discards what was merged so far
CollectFutureAbort(paths, outcome, scanned) ==
    IF outcome = "ok" THEN paths \o scanned ELSE <<>>

\* the body of the as_completed loop for one finished future
CollectFuture(paths, outcome, scanned) ==
    IF outcome = "ok" THEN paths \o scanned ELSE paths

\* a cache write that patches the old snapshot: the new flat list is
\* appended to the one the file held
WriteCacheMerge(file, w, t, data) ==
    CASE w = "ok"          ->
             CacheFile(t, [data EXCEPT !.all_paths = file.data.all_paths \o @])
      [] w = "open_failed" -> file
      [] w = "dump_failed" -> CacheFile(t, Garbage)

\* the file after the cache write: written, left alone when open() fails,
\* or left truncated when the dump fails after open() succeeded
WriteCache(file, w, t, data) ==
    CASE w = "ok"          -> CacheFile(t, data)
      [] w = "open_failed" -> file
      [] w = "dump_failed" -> CacheFile(t, Garbage)

\* a cache write whose exception is not caught
BuildReturnRaise(w, old, index, paths) ==
    IF w = "ok"
    THEN [status |-> "returned", source |-> "scan", write |-> w,
          replaced |-> old, index |-> index, all_paths |-> paths]
    ELSE [Raised EXCEPT !.source = "scan", !.write = w, !.replaced = old]

\* the value returned after the cache write, whatever its outcome
BuildReturn(w, old, index, paths) ==
    [status |-> "returned", source |-> "scan", write |-> w,
     replaced |-> old, index |-> index, all_paths |-> paths]

(* ------------------------------- state --------------------------------- *)

VARIABLES
    now,                  \* time.time(), in seconds
    cache,                \* the cache file
    pc,                   \* "idle", "scanning" or "done"
    drive_paths,          \* arguments of the current call
    cache_max_age_hours,
    max_workers,
    workers,              \* size of the process pool of the current call
    futures,              \* state of each submitted scan task
    collected,            \* futures the as_completed loop has handled
    all_paths,            \* the flat list being merged
    result                \* what the current call returned

vars == <<now, cache, pc, drive_paths, cache_max_age_hours, max_workers,
          workers, futures, collected, all_paths, result>>

\* the matcher: match_course_paths and find_asset_in_candidates
VARIABLES
    m_pc,                 \* "off", "ready", "matched" or "refined"
    course_name,          \* the query
    match_paths,          \* the flat list searched
    fuzzy_threshold,
    candidates,           \* what match_course_paths returned
    asset_hints,          \* the hint list of the last refinement
    asset,                \* what find_asset_in_candidates returned
    lookup                \* what the indexed lookup returned

match_vars == <<m_pc, course_name, match_paths, fuzzy_threshold,
                candidates, asset_hints, asset, lookup>>

\* the matcher is not in use
MatchOff ==
    /\ m_pc = "off"
    /\ course_name = <<>>
    /\ match_paths = <<>>
    /\ fuzzy_threshold = 0
    /\ candidates = <<>>
    /\ asset_hints = <<>>
    /\ asset = [found |-> FALSE, path |-> <<>>]
    /\ lookup = [found |-> FALSE, path |-> <<>>, score |-> [num |-> 0, den |-> 1],
                 tier |-> "none"]

\* the scanner: _scan_single_drive on one root, and the collection of its
\* future by build_file_index
VARIABLES
    s_pc,                 \* "off", "ready", "scanned" or "collected"
    root_path,            \* the root handed to the scan
    root_node,            \* what the file system holds at root_path
    extensions_filter,
    scan,                 \* how the scan task ended, and what os.walk opened
    report                \* what build_file_index logged for the root

scan_vars == <<s_pc, root_path, root_node, extensions_filter, scan, report>>

\* the scanner is not in use
ScanOff ==
    /\ s_pc = "off"
    /\ root_path = <<>>
    /\ root_node = [kind |-> "missing"]
    /\ extensions_filter = <<>>
    /\ scan = [status |-> "none", found |-> <<>>, opened |-> {}]
    /\ report = [level |-> "none", paths |-> 0]

\* the downloader: main of downloader.py over its state file and two disks
VARIABLES
    d_pc,                 \* "off", "idle", "assign" or "download"
    state_file,           \* the disk-assignment file
    disks,                \* the course folders of each disk
    state,                \* main's dictionary course -> disk index
    new_assignments,      \* main's count of new courses per disk in this run
    d_idx,                \* position of the running loop in its course list
    dry_run,              \* --dry-run
    runs,                 \* runs completed
    last_assign,          \* the latest iteration of the assignment loop
    last_download         \* the latest call of download_course

dl_vars == <<d_pc, state_file, disks, state, new_assignments, d_idx, dry_run,
             runs, last_assign, last_download>>

\* the downloader is not in use
DlOff ==
    /\ d_pc = "off"
    /\ state_file = [kind |-> "missing", data |-> <<>>]
    /\ disks = <<>>
    /\ state = <<>>
    /\ new_assignments = <<0, 0>>
    /\ d_idx = 0
    /\ dry_run = FALSE
    /\ runs = 0
    /\ last_assign = [course |-> "none"]
    /\ last_download = [course |-> "none"]

\* main and the download step of run_audit
VARIABLES
    a_pc,             \* "off", "main", "course", "assets", "done", "raised"
    args,             \* the parsed command line: a value or None per option
    config_file,      \* the keys config.json sets
    passed,           \* the arguments main hands to run_audit
    course_assets,    \* the per-course lists of queued assets, in dict order
    free_gb,          \* free space of the destination's filesystem
    a_course,         \* index of the course the loop is at
    a_asset,          \* index of the asset the inner loop is at
    guard_log,        \* what the guard saw and decided, per course reached
    attempts,         \* the <<course, asset>> pairs handed to
                      \* download_from_gdrive
    counters          \* downloaded_ok, downloaded_fail, skipped_courses

audit_vars == <<a_pc, args, config_file, passed, course_assets, free_gb,
                a_course, a_asset, guard_log, attempts, counters>>

\* an option that was not given (None)
NotGiven == [given |-> FALSE, value |-> 0]

\* the audit is not in use
AuditOff ==
    /\ a_pc = "off"
    /\ args = [fuzzy_threshold |-> NotGiven, workers |-> NotGiven,
               min_free_gb |-> NotGiven]
    /\ config_file = [fuzzy_threshold |-> NotGiven, max_workers |-> NotGiven,
                      min_free_gb |-> NotGiven]
    /\ passed = [fuzzy_threshold |-> 0, max_workers |-> 0, min_free_gb |-> 0]
    /\ course_assets = <<>>
    /\ free_gb = 0
    /\ a_course = 0
    /\ a_asset = 0
    /\ guard_log = <<>>
    /\ attempts = {}
    /\ counters = [downloaded_ok |-> 0, downloaded_fail |-> 0,
                   skipped_courses |-> 0]

\* one row of the report
VARIABLES
    r_pc,             \* "off", "written", "filled"
    row,              \* per asset column the cells <key>_Local and <key>_Drive
    fill              \* the colour of the row: "none" before it is set

report_vars == <<r_pc, row, fill>>

\* no report is being written
ReportOff ==
    /\ r_pc = "off"
    /\ row = <<>>
    /\ fill = "none"

\* one call of download_drive_folder
VARIABLES
    t_pc,             \* "off", "called", "attempt", "wait", "returned",
                      \* "interrupted"
    folder_url,       \* the link handed in
    retries,          \* the number of attempts allowed
    attempt,          \* the loop variable
    mkdir_called,     \* dest.mkdir was called
    events,           \* the rclone runs and the sleeps, in order
    returned          \* the value returned

retry_vars == <<t_pc, folder_url, retries, attempt, mkdir_called, events,
                returned>>

\* download_drive_folder is not in use
RetryOff ==
    /\ t_pc = "off"
    /\ folder_url = ""
    /\ retries = 0
    /\ attempt = 0
    /\ mkdir_called = FALSE
    /\ events = <<>>
    /\ returned = FALSE

\* the as_completed loop of build_file_index, with the order in which the
\* scans complete
VARIABLES
    c_pc,             \* "off", "submitted", "collecting", "done"
    c_roots,          \* the drive list: one scan is submitted per entry
    c_futures,        \* per scan "pending", "ok" or "failed"
    c_done,           \* the scans in the order they completed
    c_batch,          \* the scans already complete when as_completed began
    c_yielded,        \* the scans in the order as_completed yielded them
    c_paths           \* all_paths

collect_vars == <<c_pc, c_roots, c_futures, c_done, c_batch, c_yielded,
                  c_paths>>

\* no as_completed loop is under way
CollectOff ==
    /\ c_pc = "off"
    /\ c_roots = <<>>
    /\ c_futures = <<>>
    /\ c_done = <<>>
    /\ c_batch = {}
    /\ c_yielded = <<>>
    /\ c_paths = <<>>

\* the variables of the specifications that follow the downloader
later_vars == <<audit_vars, report_vars, retry_vars, collect_vars>>
LaterOff == AuditOff /\ ReportOff /\ RetryOff /\ CollectOff

\* the variables build_file_index does not touch
others == <<match_vars, scan_vars, dl_vars, later_vars>>

\* the drive lists a caller passes: none, one drive, both drives in either
\* order, a drive named twice, and a longer list with a repeated drive
DriveLists ==
    {dp \in {<<>>, <<DriveD>>, <<DriveD, DriveE>>, <<DriveE, DriveD>>,
             <<DriveD, DriveD>>, <<DriveE, DriveD, DriveE>>} :
        Len(dp) <= MaxDrives}
MaxAges == {0, 1}
WorkerCounts == 0..MaxWorkers
WriteOutcomes == {"ok", "open_failed", "dump_failed"}

Running == {i \in DOMAIN futures : futures[i] = "running"}
Finished == {i \in DOMAIN futures : futures[i] \in {"ok", "failed"}}

\* no call of build_file_index is under way
BuildIdle ==
    /\ now = 0
    /\ cache = NoFile
    /\ pc = "idle"
    /\ drive_paths = <<>>
    /\ cache_max_age_hours = 0
    /\ max_workers = 0
    /\ workers = 0
    /\ futures = <<>>
    /\ collected = {}
    /\ all_paths = <<>>
    /\ result = NoResult

Init == BuildIdle /\ MatchOff /\ ScanOff /\ DlOff /\ LaterOff

(* ------------------------------ actions -------------------------------- *)

\* build_file_index up to the submission of the scan tasks: either the
\* cached index is returned, or one task per drive is submitted
Call(dp, maxh, mw) ==
    /\ pc = "idle"
    /\ drive_paths' = dp
    /\ cache_max_age_hours' = maxh
    /\ max_workers' = mw
    /\ IF CacheHit(cache, DrivesKey(dp), now, maxh)
       THEN /\ result' = CachedResult(cache.data)
            /\ pc' = "done"
            /\ UNCHANGED <<workers, futures>>
       ELSE /\ result' = NoResult
            /\ pc' = "scanning"
            /\ futures' = [i \in 1..Len(dp) |-> "pending"]
            /\ workers' = PoolSize(mw, Len(dp))
    /\ UNCHANGED others
    /\ UNCHANGED <<now, cache, collected, all_paths>>

\* an idle pool worker takes the next task of the pool's call queue, which
\* hands the tasks out in the order they were submitted
StartTask(i) ==
    /\ pc = "scanning"
    /\ futures[i] = "pending"
    /\ \A j \in DOMAIN futures : j < i => futures[j] # "pending"
    /\ Cardinality(Running) < workers
    /\ futures' = [futures EXCEPT ![i] = "running"]
    /\ UNCHANGED others
    /\ UNCHANGED <<now, cache, pc, drive_paths, cache_max_age_hours,
                   max_workers, workers, collected, all_paths, result>>

\* _scan_single_drive returns its list
TaskReturn(i) ==
    /\ pc = "scanning"
    /\ futures[i] = "running"
    /\ futures' = [futures EXCEPT ![i] = "ok"]
    /\ UNCHANGED others
    /\ UNCHANGED <<now, cache, pc, drive_paths, cache_max_age_hours,
                   max_workers, workers, collected, all_paths, result>>

\* the scan task raises
TaskRaise(i) ==
    /\ pc = "scanning"
    /\ futures[i] = "running"
    /\ futures' = [futures EXCEPT ![i] = "failed"]
    /\ UNCHANGED others
    /\ UNCHANGED <<now, cache, pc, drive_paths, cache_max_age_hours,
                   max_workers, workers, collected, all_paths, result>>

\* as_completed yields a finished future and the loop body handles it
Collect(i) ==
    /\ pc = "scanning"
    /\ i \in Finished \ collected
    /\ all_paths' = CollectFuture(all_paths, futures[i],
                                  ScanSingleDrive(drive_paths[i]))
    /\ collected' = collected \cup {i}
    /\ UNCHANGED others
    /\ UNCHANGED <<now, cache, pc, drive_paths, cache_max_age_hours,
                   max_workers, workers, futures, result>>

\* after the loop: build the index, write the cache file, return
Finish(w) ==
    /\ pc = "scanning"
    /\ collected = DOMAIN futures
    /\ LET index == BuildIndex(all_paths)
       IN  /\ cache' = WriteCache(cache, w, now,
                           Snapshot(DrivesKey(drive_paths), index, all_paths))
           /\ result' = BuildReturn(w, cache, index, all_paths)
    /\ pc' = "done"
    /\ UNCHANGED others
    /\ UNCHANGED <<now, drive_paths, cache_max_age_hours, max_workers,
                   workers, futures, collected, all_paths>>

\* the caller (run_audit) takes the returned pair; the call is over
Exit ==
    /\ pc = "done"
    /\ pc' = "idle"
    /\ drive_paths' = <<>>
    /\ cache_max_age_hours' = 0
    /\ max_workers' = 0
    /\ workers' = 0
    /\ futures' = <<>>
    /\ collected' = {}
    /\ all_paths' = <<>>
    /\ result' = NoResult
    /\ UNCHANGED others
    /\ UNCHANGED <<now, cache>>

\* time passes between calls
Tick ==
    /\ pc = "idle"
    /\ now < MaxTicks * TickSeconds
    /\ now' = now + TickSeconds
    /\ UNCHANGED others
    /\ UNCHANGED <<cache, pc, drive_paths, cache_max_age_hours, max_workers,
                   workers, futures, collected, all_paths, result>>

\* the cache file is damaged between calls: overwritten with bytes that do
\* not unpickle, or with a pickle of something that is not a dictionary
Corrupt(data) ==
    /\ pc = "idle"
    /\ cache.exists
    /\ cache.data.kind = "dict"
    /\ cache' = [cache EXCEPT !.data = data]
    /\ UNCHANGED others
    /\ UNCHANGED <<now, pc, drive_paths, cache_max_age_hours, max_workers,
                   workers, futures, collected, all_paths, result>>

\* the cache file comes from a writer that left one key out
DropKey(key) ==
    /\ pc = "idle"
    /\ cache.exists
    /\ cache.data.kind = "dict"
    /\ cache.data.keys = CacheKeys
    /\ cache' = [cache EXCEPT !.data = WithoutKey(@, key)]
    /\ UNCHANGED others
    /\ UNCHANGED <<now, pc, drive_paths, cache_max_age_hours, max_workers,
                   workers, futures, collected, all_paths, result>>

\* the file's modification time is set ahead of the clock
Touch ==
    /\ pc = "idle"
    /\ cache.exists
    /\ cache.mtime <= now
    /\ cache' = [cache EXCEPT !.mtime = now + SecondsPerHour]
    /\ UNCHANGED others
    /\ UNCHANGED <<now, pc, drive_paths, cache_max_age_hours, max_workers,
                   workers, futures, collected, all_paths, result>>

Next ==
    \/ \E dp \in DriveLists, maxh \in MaxAges, mw \in WorkerCounts :
           Call(dp, maxh, mw)
    \/ \E i \in DOMAIN futures : StartTask(i)
    \/ \E i \in DOMAIN futures : TaskReturn(i)
    \/ \E i \in DOMAIN futures : TaskRaise(i)
    \/ \E i \in DOMAIN futures : Collect(i)
    \/ \E w \in WriteOutcomes : Finish(w)
    \/ Exit
    \/ Tick
    \/ \E data \in {Garbage, NotADict} : Corrupt(data)
    \/ \E key \in CacheKeys : DropKey(key)
    \/ Touch

Spec == Init /\ [][Next]_vars

(* ------------------------------ properties ----------------------------- *)

Range(s) == {s[i] : i \in DOMAIN s}

\* the current call has looked at the cache file and has not written it:
\* the file and the clock are still what the call found
Decided ==
    \/ pc = "scanning"
    \/ pc = "done" /\ result.source = "cache"

\* the call returned the cached pair
FromCache == pc = "done" /\ result.source = "cache"

\* the call rescanned and returned
Rescanned == pc = "done" /\ result.source = "scan"

\* the file holds a dictionary with all three keys
WellFormed(file) ==
    file.exists /\ file.data.kind = "dict" /\ file.data.keys = CacheKeys

\* the file's age is below the freshness window of the current call
FreshByAge == now - cache.mtime < cache_max_age_hours * SecondsPerHour

\* the two lists hold the same elements the same number of times
IsPermutation(a, b) ==
    /\ Len(a) = Len(b)
    /\ \A x \in Range(a) \cup Range(b) :
           Cardinality({i \in DOMAIN a : a[i] = x})
               = Cardinality({i \in DOMAIN b : b[i] = x})

\* no element of the list is smaller than an earlier one
IsSorted(s) == \A i, j \in DOMAIN s : i < j => ~StrLess(s[j], s[i])

\* C1: when the drive list, sorted, equals the list stored in a well-formed
\* cache file and the file's age is below cache_max_age_hours, the call
\* returns the cached index and flat list unchanged and submits no scan task
C1_CacheShortCircuit ==
    (/\ Decided
     /\ WellFormed(cache)
     /\ IsSorted(cache.data.drives)
     /\ IsPermutation(drive_paths, cache.data.drives)
     /\ FreshByAge)
    => /\ pc = "done"
       /\ result.status = "returned"
       /\ result.index = cache.data.index
       /\ result.all_paths = cache.data.all_paths
       /\ futures = <<>>
       /\ Running = {}

\* a call given the drives in another order than stored returned a cached,
\* non-empty flat list
C1_Witness ==
    /\ FromCache
    /\ WellFormed(cache)
    /\ drive_paths # cache.data.drives
    /\ result.all_paths # <<>>
    /\ futures = <<>>

\* C2 as stated: a fresh well-formed snapshot is reused if and only if the
\* drive list denotes the same set of drives as the stored list
C2_SameSetReuse ==
    (Decided /\ WellFormed(cache) /\ FreshByAge)
    => (FromCache <=> Range(drive_paths) = Range(cache.data.drives))

\* C2 amended: a fresh well-formed snapshot is reused if and only if the
\* drive list is a permutation of the stored list (same drives, each the
\* same number of times); any other drive list forces a rescan
C2_PermutationReuse ==
    (Decided /\ WellFormed(cache) /\ FreshByAge)
    => (FromCache <=> IsPermutation(drive_paths, cache.data.drives))

\* a snapshot was reused for a drive list given in reverse order
C2_Witness ==
    /\ FromCache
    /\ WellFormed(cache)
    /\ FreshByAge
    /\ drive_paths = <<DriveE, DriveD>>
    /\ cache.data.drives = <<DriveD, DriveE>>

\* C3: a cached pair is returned only when the file's age is strictly less
\* than cache_max_age_hours; at age equal to it, or above, the call rescans
C3_StrictFreshness ==
    FromCache => now - cache.mtime < cache_max_age_hours * SecondsPerHour

\* a well-formed snapshot for the same drives, aged exactly
\* cache_max_age_hours, was not reused
C3_Witness ==
    /\ pc = "scanning"
    /\ WellFormed(cache)
    /\ IsPermutation(drive_paths, cache.data.drives)
    /\ cache_max_age_hours > 0
    /\ now - cache.mtime = cache_max_age_hours * SecondsPerHour

\* C4: a cache file that does not decode to a dictionary with all its keys
\* is treated as a miss: the call never raises and never returns from it
C4_DecodeFailureIsMiss ==
    /\ result.status # "raised"
    /\ FromCache => WellFormed(cache)

\* C5: when the cache write fails the call still returns the index and the
\* flat list built from the scan
C5_WriteFailureNonFatal ==
    (Rescanned /\ result.write # "ok")
    => /\ result.status = "returned"
       /\ result.all_paths = all_paths
       /\ result.index = BuildIndex(all_paths)

\* a rescan whose cache write failed half-way returned a non-empty list
C5_Witness ==
    /\ Rescanned
    /\ result.write = "dump_failed"
    /\ result.status = "returned"
    /\ result.all_paths # <<>>

\* the tasks of the current call whose scan returned
Succeeded == {i \in DOMAIN futures : futures[i] = "ok"}

\* C6: whatever tasks raise and in whatever order the tasks complete, the
\* call returns only when every submitted task has completed or failed and
\* has been collected, and the flat list holds exactly the paths of the
\* drives whose scan succeeded
C6_RootFailureIsolation ==
    Rescanned
    => /\ DOMAIN futures = 1..Len(drive_paths)
       /\ collected = DOMAIN futures
       /\ \A i \in DOMAIN futures : futures[i] \in {"ok", "failed"}
       /\ \A p \in Range(result.all_paths)
                 \cup UNION {Range(ScanSingleDrive(drive_paths[i])) :
                                i \in Succeeded} :
             Cardinality({k \in DOMAIN result.all_paths :
                             result.all_paths[k] = p})
               = Cardinality(UNION {
                     {<<i, k>> : k \in {n \in DOMAIN ScanSingleDrive(drive_paths[i]) :
                                           ScanSingleDrive(drive_paths[i])[n] = p}} :
                     i \in Succeeded})

\* a rescan in which the first task raised and a later one succeeded
\* returned a non-empty list
C6_Witness ==
    /\ Rescanned
    /\ Len(drive_paths) >= 2
    /\ futures[1] = "failed"
    /\ futures[2] = "ok"
    /\ result.all_paths # <<>>

\* C7: when every scan task raises, the call ends in a hard failure
C7_AllRootsFailedIsHardFailure ==
    (Rescanned /\ DOMAIN futures # {}
       /\ \A i \in DOMAIN futures : futures[i] = "failed")
    => result.status = "raised"

\* C8 as stated: the pool has size min(max_workers, number of drives)
C8_PoolSizeIsMin ==
    pc = "scanning" => workers = Min(max_workers, Len(drive_paths))

\* C8 amended: the pool has size min(max_workers, number of drives), raised
\* to 1 when that is below 1; one task is submitted per entry of the drive
\* list and at most pool-size tasks run at the same time
C8_PoolSizeClamped ==
    pc = "scanning"
    => /\ workers = (IF max_workers < Len(drive_paths)
                     THEN (IF max_workers < 1 THEN 1 ELSE max_workers)
                     ELSE (IF Len(drive_paths) < 1 THEN 1
                           ELSE Len(drive_paths)))
       /\ DOMAIN futures = 1..Len(drive_paths)
       /\ Cardinality(Running) <= workers

\* with max_workers = 0 and two drives, one task runs and one waits
C8_Witness ==
    /\ pc = "scanning"
    /\ max_workers = 0
    /\ Len(drive_paths) = 2
    /\ Cardinality(Running) = 1
    /\ \E i \in DOMAIN futures : futures[i] = "pending"

RECURSIVE KeyEntries(_, _)
\* the paths of the flat list that belong under the key, in list order: a
\* path once for its lower-cased name and once for its lower-cased stem
KeyEntries(key, paths) ==
    IF paths = <<>> THEN <<>>
    ELSE LET p == Head(paths)
         IN  (IF Lower(PathName(p)) = key THEN <<p>> ELSE <<>>)
             \o (IF Lower(PathStem(p)) = key THEN <<p>> ELSE <<>>)
             \o KeyEntries(key, Tail(paths))

\* C9: after a scan every path of the flat list is in the index under its
\* lower-cased name and under its lower-cased stem, and the list under each
\* key holds its paths in flat-list order with no earlier entry lost
C9_LookupMapping ==
    Rescanned
    => /\ \A i \in DOMAIN result.all_paths :
             LET p == result.all_paths[i]
             IN  /\ Lower(PathName(p)) \in DOMAIN result.index
                 /\ p \in Range(result.index[Lower(PathName(p))])
                 /\ Lower(PathStem(p)) \in DOMAIN result.index
                 /\ p \in Range(result.index[Lower(PathStem(p))])
       /\ \A key \in DOMAIN result.index :
             result.index[key] = KeyEntries(key, result.all_paths)

\* a key of the returned index holds paths of both drives
C9_Witness ==
    /\ Rescanned
    /\ \E key \in DOMAIN result.index :
          /\ Len(result.index[key]) >= 3
          /\ \E i, j \in DOMAIN result.index[key] :
                /\ i < j
                /\ result.index[key][i] # result.index[key][j]

\* C10: after a rescan whose cache write succeeded, the cache file holds
\* exactly that rescan's sorted drive list, index and flat list
C10_RescanReplacesSnapshot ==
    (Rescanned /\ result.write = "ok")
    => /\ cache.exists
       /\ cache.mtime = now
       /\ cache.data.kind = "dict"
       /\ cache.data.keys = CacheKeys
       /\ IsSorted(cache.data.drives)
       /\ IsPermutation(cache.data.drives, drive_paths)
       /\ cache.data.index = result.index
       /\ cache.data.all_paths = result.all_paths

\* a rescan replaced a snapshot holding a path that the new one lacks
C10_Witness ==
    /\ Rescanned
    /\ result.write = "ok"
    /\ WellFormed(result.replaced)
    /\ \E p \in Range(result.replaced.data.all_paths) :
          p \notin Range(cache.data.all_paths)

(* ======================================================================= *)
(* The matcher of audit_checker.py: _score_path_for_course,                *)
(* match_course_paths and find_asset_in_candidates, with rapidfuzz's       *)
(* fuzz.ratio, fuzz.token_sort_ratio and fuzz.partial_ratio computed on    *)
(* the characters.  A score is kept as the exact fraction of 100 it is.    *)
(* ======================================================================= *)

\* longest path list handed to match_course_paths
MaxPaths == 3

(* ------------------------------ scores --------------------------------- *)

RECURSIVE GCD(_, _)
GCD(a, b) == IF b = 0 THEN a ELSE GCD(b, a % b)

\* the score 100 * n / d, in lowest terms
Frac(n, d) == [num |-> n \div GCD(n, d), den |-> d \div GCD(n, d)]

\* best = 0
ZeroScore == [num |-> 0, den |-> 1]

\* a < b on scores
ScoreLess(a, b) == a.num * b.den < b.num * a.den

\* max(a, b)
ScoreMax(a, b) == IF ScoreLess(a, b) THEN b ELSE a

\* the largest score of a non-empty set of scores
ScoreMaxOf(S) == CHOOSE f \in S : \A g \in S : ~ScoreLess(f, g)

\* score > fuzzy_threshold : the comparison excludes a score at the threshold
MeetsThresholdStrict(score, threshold) ==
    100 * score.num > threshold * score.den

\* score >= fuzzy_threshold
MeetsThreshold(score, threshold) ==
    100 * score.num >= threshold * score.den

(* ------------------------------ rapidfuzz ------------------------------ *)

RECURSIVE LCS(_, _)
\* length of the longest common subsequence of a and b
LCS(a, b) ==
    IF a = <<>> \/ b = <<>> THEN 0
    ELSE IF Head(a) = Head(b) THEN 1 + LCS(Tail(a), Tail(b))
    ELSE LET x == LCS(Tail(a), b)
             y == LCS(a, Tail(b))
         IN  IF x < y THEN y ELSE x

\* fuzz.ratio : the normalised Indel similarity,
\* 100 * (1 - (len1 + len2 - 2 * lcs) / (len1 + len2)), 100 for two empty strings
Ratio(a, b) ==
    IF Len(a) + Len(b) = 0 THEN Frac(1, 1)
    ELSE Frac(2 * LCS(a, b), Len(a) + Len(b))

RECURSIVE Pieces(_, _)
\* s cut at every character of seps (str.split(sep) for a one-character sep)
Pieces(s, seps) ==
    LET hits == {i \in 1..Len(s) : s[i] \in seps}
    IN  IF hits = {} THEN <<s>>
        ELSE LET i == CHOOSE h \in hits : \A j \in hits : h <= j
             IN  <<SubSeq(s, 1, i - 1)>>
                   \o Pieces(SubSeq(s, i + 1, Len(s)), seps)

RECURSIVE Keep(_, _)
\* the elements of list whose position is in the set at
Keep(list, at) ==
    IF list = <<>> THEN <<>>
    ELSE Keep(SubSeq(list, 1, Len(list) - 1), at)
           \o (IF Len(list) \in at THEN <<list[Len(list)]>> ELSE <<>>)

\* str.split() : the maximal runs of non-blank characters
SplitWords(s) ==
    LET ps == Pieces(s, {" "})
    IN  Keep(ps, {i \in 1..Len(ps) : ps[i] # <<>>})

RECURSIVE JoinWords(_)
\* " ".join(words)
JoinWords(words) ==
    IF words = <<>> THEN <<>>
    ELSE IF Len(words) = 1 THEN words[1]
    ELSE words[1] \o <<" ">> \o JoinWords(Tail(words))

\* fuzz.token_sort_ratio : ratio of the two strings with their words sorted
TokenSortRatio(a, b) ==
    Ratio(JoinWords(Sorted(SplitWords(a))), JoinWords(Sorted(SplitWords(b))))

\* the windows of a haystack of length m that a needle of length n <= m is
\* aligned with: the prefixes shorter than the needle, the windows of the
\* needle's length, and the suffixes not longer than the needle; a window is
\* looked at only if the character at its open end occurs in the needle
PartialWindows(needle, hay) ==
    LET n     == Len(needle)
        m     == Len(hay)
        chars == {needle[k] : k \in 1..n}
    IN  {<<1, j>> : j \in {j \in 1..(n - 1) : hay[j] \in chars}}
          \cup {<<i, i + n - 1>> :
                  i \in {i \in 1..(m - n) : hay[i + n - 1] \in chars}}
          \cup {<<i, m>> : i \in {i \in (m - n + 1)..m : hay[i] \in chars}}

\* the best ratio of the needle against a window of the haystack
PartialRatioImpl(needle, hay) ==
    ScoreMaxOf({ZeroScore}
                 \cup {Ratio(needle, SubSeq(hay, w[1], w[2])) :
                         w \in PartialWindows(needle, hay)})

\* fuzz.partial_ratio : the shorter string against the windows of the longer
\* one; strings of equal length are tried both ways round
PartialRatio(a, b) ==
    IF Len(a) = 0 \/ Len(b) = 0
    THEN IF Len(a) = Len(b) THEN Frac(1, 1) ELSE ZeroScore
    ELSE IF Len(a) < Len(b) THEN PartialRatioImpl(a, b)
    ELSE IF Len(b) < Len(a) THEN PartialRatioImpl(b, a)
    ELSE ScoreMax(PartialRatioImpl(a, b), PartialRatioImpl(b, a))

(* ------------------------- _score_path_for_course ---------------------- *)

\* a path component shorter than this is not scored
MinPartLen == 3

\* re.split(r"[\\/]+", s) : s cut at every run of separators; only the first
\* and the last piece can be empty
SplitPath(s) ==
    LET ps == Pieces(s, {"/", "\\"})
    IN  Keep(ps, {i \in 1..Len(ps) : ps[i] # <<>> \/ i = 1 \/ i = Len(ps)})

\* the score of one component: token_sort_ratio alone
PartScoreTokenSortOnly(course_lower, part) == TokenSortRatio(course_lower, part)

\* the score of one component
PartScore(course_lower, part) ==
    ScoreMax(TokenSortRatio(course_lower, part),
             PartialRatio(course_lower, part))

\* no component is passed over
TooShortNever(part) == FALSE

\* len(part) < 3 : the component is passed over
TooShort(part) == Len(part) < MinPartLen

RECURSIVE BestOfParts(_, _, _)
\* the loop over the components, best being the running maximum
BestOfParts(course_lower, parts, best) ==
    IF parts = <<>> THEN best
    ELSE LET part == Head(parts)
         IN  IF TooShort(part)
             THEN BestOfParts(course_lower, Tail(parts), best)
             ELSE LET s == PartScore(course_lower, part)
                  IN  BestOfParts(course_lower, Tail(parts),
                                  IF ScoreLess(best, s) THEN s ELSE best)

ScorePathForCourse(course_lower, path) ==
    BestOfParts(course_lower, SplitPath(Lower(path)), ZeroScore)

(* --------------------------- match_course_paths ------------------------ *)

RECURSIVE InsertByScoreBeforeTies(_, _)
\* insert candidate c before the candidates that do not score more than it
InsertByScoreBeforeTies(c, list) ==
    IF list = <<>> THEN <<c>>
    ELSE IF ~ScoreLess(c.score, Head(list).score) THEN <<c>> \o list
    ELSE <<Head(list)>> \o InsertByScoreBeforeTies(c, Tail(list))

RECURSIVE InsertByScore(_, _)
\* insert candidate c after the candidates that do not score less than it
InsertByScore(c, list) ==
    IF list = <<>> THEN <<c>>
    ELSE IF ScoreLess(Head(list).score, c.score) THEN <<c>> \o list
    ELSE <<Head(list)>> \o InsertByScore(c, Tail(list))

RECURSIVE SortedByScore(_)
\* sorted(candidates, key=lambda x: -x[1]) : descending, and stable
SortedByScore(list) ==
    IF list = <<>> THEN <<>>
    ELSE InsertByScore(list[Len(list)],
                       SortedByScore(SubSeq(list, 1, Len(list) - 1)))

RECURSIVE CollectCandidates(_, _, _)
\* the loop over all_paths building the unsorted candidate list
CollectCandidates(course_lower, paths, threshold) ==
    IF paths = <<>> THEN <<>>
    ELSE LET path  == paths[Len(paths)]
             score == ScorePathForCourse(course_lower, path)
         IN  CollectCandidates(course_lower, SubSeq(paths, 1, Len(paths) - 1), threshold)
               \o (IF MeetsThreshold(score, threshold)
                   THEN <<[path |-> path, score |-> score]>> ELSE <<>>)

MatchCoursePaths(name, paths, threshold) ==
    SortedByScore(CollectCandidates(Lower(name), paths, threshold))

(* ------------------------ find_asset_in_candidates --------------------- *)

\* sub in s
Contains(s, sub) ==
    \E i \in 0..(Len(s) - Len(sub)) : SubSeq(s, i + 1, i + Len(sub)) = sub

\* any(hint in path.lower() for hint in asset_hints)
AnyHint(path, hints) ==
    \E k \in 1..Len(hints) : Contains(Lower(path), hints[k])

RECURSIVE FirstWithHint(_, _)
\* the loop over the candidates: the first path holding a hint, <<>> if none
FirstWithHint(cands, hints) ==
    IF cands = <<>> THEN <<>>
    ELSE IF AnyHint(Head(cands).path, hints) THEN <<Head(cands).path>>
    ELSE FirstWithHint(Tail(cands), hints)

\* no candidate holds a hint: not found
FindAssetInCandidatesStrict(cands, hints) ==
    IF cands = <<>> THEN [found |-> FALSE, path |-> <<>>]
    ELSE IF hints = <<>> THEN [found |-> TRUE, path |-> cands[1].path]
    ELSE LET hit == FirstWithHint(cands, hints)
         IN  IF hit # <<>> THEN [found |-> TRUE, path |-> hit[1]]
             ELSE [found |-> FALSE, path |-> <<>>]

FindAssetInCandidates(cands, hints) ==
    IF cands = <<>> THEN [found |-> FALSE, path |-> <<>>]
    ELSE IF hints = <<>> THEN [found |-> TRUE, path |-> cands[1].path]
    ELSE LET hit == FirstWithHint(cands, hints)
         IN  IF hit # <<>> THEN [found |-> TRUE, path |-> hit[1]]
             ELSE [found |-> TRUE, path |-> cands[1].path]

(* ----------------- indexed lookup with tiered fallback ----------------- *)
(* The lookup of a flat name in the filename index that build_file_index   *)
(* returns "for fast exact/fuzzy lookup": exact tier, restricted-fuzzy     *)
(* tier, full-fuzzy tier.                                                  *)

\* the restricted pool is widened when it holds fewer keys than this
WidenBelow == 5

\* the least length slack of the restricted pool
MinLenSlack == 3

\* found = false
NotFound ==
    [found |-> FALSE, path |-> <<>>, score |-> ZeroScore, tier |-> "none"]

Abs(x) == IF x < 0 THEN -x ELSE x

\* the exact tier: the lowercased full name, then the lowercased stem
ExactKey(index, q) ==
    IF q \in DOMAIN index THEN <<q>>
    ELSE IF PathStem(q) \in DOMAIN index THEN <<PathStem(q)>>
    ELSE <<>>

\* the keys sharing the query's first character whose length is within
\* max(3, 0.5 * len(q)) of the query's
RestrictedPool(index, q) ==
    {k \in DOMAIN index :
        /\ k # <<>> /\ q # <<>> /\ k[1] = q[1]
        /\ 2 * Abs(Len(k) - Len(q)) <= Max(2 * MinLenSlack, Len(q))}

\* the best-scoring keys of the pool, if they meet the threshold
BestKeys(pool, q, threshold) ==
    {k \in pool :
        /\ MeetsThreshold(TokenSortRatio(q, k), threshold)
        /\ \A j \in pool :
              ~ScoreLess(TokenSortRatio(q, k), TokenSortRatio(q, j))}

\* the results of a fuzzy tier: the first entry of a best key
TierResults(index, keys, q, tier) ==
    {[found |-> TRUE, path |-> index[k][1], score |-> TokenSortRatio(q, k),
      tier |-> tier] : k \in keys}

\* the lookup without the full-fuzzy tier
LookupResultsNoWiden(index, q, threshold) ==
    LET exact == ExactKey(index, q)
        pool  == RestrictedPool(index, q)
        best  == BestKeys(pool, q, threshold)
    IN  IF exact # <<>>
        THEN {[found |-> TRUE, path |-> index[exact[1]][1],
               score |-> Frac(1, 1), tier |-> "exact"]}
        ELSE IF best # {} THEN TierResults(index, best, q, "restricted-fuzzy")
        ELSE {NotFound}

\* the results the lookup may return (keys that tie for the best score are
\* not ordered)
LookupResults(index, q, threshold) ==
    LET exact == ExactKey(index, q)
        pool  == RestrictedPool(index, q)
        best  == BestKeys(pool, q, threshold)
        wide  == BestKeys(DOMAIN index, q, threshold)
    IN  IF exact # <<>>
        THEN {[found |-> TRUE, path |-> index[exact[1]][1],
               score |-> Frac(1, 1), tier |-> "exact"]}
        ELSE IF best # {} THEN TierResults(index, best, q, "restricted-fuzzy")
        ELSE IF Cardinality(pool) < WidenBelow /\ wide # {}
        THEN TierResults(index, wide, q, "full-fuzzy")
        ELSE {NotFound}

(* ------------------------------ inputs --------------------------------- *)

\* the lists searched, in discovery order
PathLists ==
    LET
        PathAbc   == <<"/", "d", "/", "a", "b", "c">>
        PathAbcAb == <<"/", "d", "/", "a", "b", "c", "/", "a", "b", ".", "x">>
        PathCab   == <<"/", "e", "/", "c", "a", "b">>
        PathBca   == <<"/", "e", "/", "b", "c", "a">>
        PathAb    == <<"/", "d", "/", "A", "b">>
        PathAbC   == <<"/", "e", "\\", "a", "b", " ", "c">>
        PathAbBsC == <<"/", "d", "/", "a", "b", "\\", "c">>
        PathAX    == <<"/", "d", "/", "a", ".", "x">>
        PathAbX   == <<"/", "d", "/", "a", "b", ".", "x">>
        PathAbcX  == <<"/", "d", "/", "a", "b", "c", ".", "x">>
    IN  {l \in { <<>>,
                 <<PathAbc, PathAbcAb, PathCab>>,
                 <<PathCab, PathAb, PathBca>>,
                 <<PathBca, PathAbC, PathCab>>,
                 <<PathAb, PathAbcAb, PathAbBsC>>,
                 <<PathAX, PathAbX, PathAbcX>>,
                 <<PathCab, PathBca, PathAb, PathAbc>> } : Len(l) <= MaxPaths}

\* the course names searched for
CourseNames == { <<"A", "b", "c">>, <<"a", "b">>, <<"c", " ", "A", "b">>,
                 <<"a", "b", "\\", "c">> }

Thresholds == {0, 60, 75, 100, 101}

\* the hint lists of the asset columns
HintLists == { <<>>, << <<"c", "a">> >>, << <<"e", "e">>, <<".", "x">> >>,
               << <<"e", "e">> >> }

(* ------------------------------ actions -------------------------------- *)

\* a course row of run_audit with the flat path list of the index
MatchInit ==
    /\ BuildIdle
    /\ ScanOff
    /\ DlOff
    /\ LaterOff
    /\ m_pc = "ready"
    /\ course_name \in CourseNames
    /\ match_paths \in PathLists
    /\ fuzzy_threshold \in Thresholds
    /\ candidates = <<>>
    /\ asset_hints = <<>>
    /\ asset = [found |-> FALSE, path |-> <<>>]
    /\ lookup = NotFound

\* run_audit computes the candidates of the course once
MatchCourse ==
    /\ m_pc = "ready"
    /\ candidates' = IF match_paths # <<>>
                     THEN MatchCoursePaths(course_name, match_paths,
                                           fuzzy_threshold)
                     ELSE <<>>
    /\ m_pc' = "matched"
    /\ UNCHANGED <<course_name, match_paths, fuzzy_threshold, asset_hints,
                   asset, lookup>>
    /\ UNCHANGED <<vars, scan_vars, dl_vars, later_vars>>

\* run_audit refines the candidates with the hints of one asset column
FindAsset(hints) ==
    /\ m_pc \in {"matched", "refined"}
    /\ asset' = FindAssetInCandidates(candidates, hints)
    /\ asset_hints' = hints
    /\ m_pc' = "refined"
    /\ UNCHANGED <<course_name, match_paths, fuzzy_threshold, candidates,
                   lookup>>
    /\ UNCHANGED <<vars, scan_vars, dl_vars, later_vars>>

\* the name is looked up in the filename index of the same path list
LookupIndexed ==
    /\ m_pc = "ready"
    /\ lookup' \in LookupResults(BuildIndex(match_paths), Lower(course_name),
                                 fuzzy_threshold)
    /\ m_pc' = "looked"
    /\ UNCHANGED <<course_name, match_paths, fuzzy_threshold, candidates,
                   asset_hints, asset>>
    /\ UNCHANGED <<vars, scan_vars, dl_vars, later_vars>>

MatchNext ==
    \/ MatchCourse
    \/ \E hints \in HintLists : FindAsset(hints)
    \/ LookupIndexed

MatchSpec == MatchInit /\ [][MatchNext]_<<vars, others>>

(* ----------------------------- properties ------------------------------ *)

\* match_course_paths has returned
Matched == m_pc \in {"matched", "refined"}

\* the positions of the candidate list
CandIdx == 1..Len(candidates)

\* the positions of the path list whose path scores at least the threshold
Qualifying ==
    {j \in 1..Len(match_paths) :
        LET score == ScorePathForCourse(Lower(course_name), match_paths[j])
        IN  100 * score.num >= fuzzy_threshold * score.den}

\* C11 (threshold enforcement): every returned candidate scores at least
\* fuzzy_threshold, and every input path scoring at least fuzzy_threshold is
\* returned, once for each time it is in the input.
C11_ThresholdEnforcement ==
    Matched =>
        /\ \A i \in CandIdx :
              100 * candidates[i].score.num
                 >= fuzzy_threshold * candidates[i].score.den
        /\ \A j \in Qualifying :
              \E i \in CandIdx : candidates[i].path = match_paths[j]
        /\ Len(candidates) = Cardinality(Qualifying)

\* a path scoring exactly the threshold was returned, and another path was
\* left out
C11_Witness ==
    /\ Matched
    /\ fuzzy_threshold = 100
    /\ \E i \in CandIdx : candidates[i].score = Frac(1, 1)
    /\ Len(candidates) < Len(match_paths)

\* the positions of the path list whose lowercased name or stem is the
\* lowercased course name
ExactAt ==
    {j \in 1..Len(match_paths) :
        \/ Lower(PathName(match_paths[j])) = Lower(course_name)
        \/ Lower(PathStem(match_paths[j])) = Lower(course_name)}

\* the path at position j of the list was returned with score 100
ReturnedAt100(j) ==
    \E i \in CandIdx : /\ candidates[i].path = match_paths[j]
                       /\ candidates[i].score = Frac(1, 1)

\* C12 as stated (exact-tier precedence): a path whose lowercased name or stem
\* equals the lowercased query scores 100 and is returned, whatever the length
\* of the query and whatever the threshold.
C12_ExactAlwaysReturned ==
    Matched => \A j \in ExactAt : ReturnedAt100(j)

\* C12 amended: a path whose lowercased name or stem equals the lowercased
\* query scores 100 and is returned for every threshold up to 100, provided
\* its name has at least three characters and no backslash.
C12_ExactReturnedWhenScored ==
    Matched =>
        \A j \in ExactAt :
            (/\ Len(PathName(match_paths[j])) >= MinPartLen
             /\ ~Contains(PathName(match_paths[j]), <<"\\">>)
             /\ fuzzy_threshold <= 100)
                => ReturnedAt100(j)

\* at threshold 100 a path was returned at score 100 because its stem, not
\* its name, is the query
C12_Witness ==
    /\ Matched
    /\ fuzzy_threshold = 100
    /\ \E j \in ExactAt :
          /\ Lower(PathName(match_paths[j])) # Lower(course_name)
          /\ Len(PathName(match_paths[j])) >= MinPartLen
          /\ ReturnedAt100(j)

\* the position in the path list of a path that is in it
PosOf(path) == CHOOSE j \in 1..Len(match_paths) : match_paths[j] = path

\* C13 (result ordering): the candidates are in descending order of score,
\* and two candidates of equal score are in the order of their paths in the
\* input list.
C13_DescendingStable ==
    Matched =>
        \A i, k \in CandIdx :
            i < k =>
                /\ ~ScoreLess(candidates[i].score, candidates[k].score)
                /\ candidates[i].score = candidates[k].score
                      => PosOf(candidates[i].path) < PosOf(candidates[k].path)

\* the sort moved a later path in front of two earlier ones that tie
C13_Witness ==
    /\ Matched
    /\ \E i, k \in CandIdx :
          /\ i < k
          /\ candidates[i].score = candidates[k].score
          /\ PosOf(candidates[i].path) < PosOf(candidates[k].path)
          /\ PosOf(candidates[1].path) > PosOf(candidates[i].path)
          /\ ScoreLess(candidates[i].score, candidates[1].score)

\* find_asset_in_candidates has returned
Refined == m_pc = "refined"

\* the positions of the candidates whose lowercased path holds a hint
WithHint ==
    {i \in CandIdx :
        \E k \in 1..Len(asset_hints) :
            Contains(Lower(candidates[i].path), asset_hints[k])}

\* C14 (hint refinement): the result is (False, "") exactly when there is no
\* candidate; otherwise it is found with the first candidate whose lowercased
\* path holds a hint, and with the first candidate of the list when no
\* candidate holds one or the hint list is empty.
C14_HintRefinement ==
    Refined =>
        /\ (asset = [found |-> FALSE, path |-> <<>>]) <=> (candidates = <<>>)
        /\ candidates # <<>> =>
              /\ asset.found
              /\ WithHint = {} => asset.path = candidates[1].path
              /\ WithHint # {} =>
                    \E i \in WithHint : /\ \A k \in WithHint : i <= k
                                        /\ asset.path = candidates[i].path

\* a hint picked a candidate that is not the first of the list
C14_Witness ==
    /\ Refined
    /\ Len(candidates) >= 2
    /\ WithHint # {}
    /\ 1 \notin WithHint
    /\ asset.found
    /\ asset.path # candidates[1].path

\* the indexed lookup has returned
Looked == m_pc = "looked"

\* the filename index of the path list
TheIndex == BuildIndex(match_paths)

\* the keys of the index that score at least the threshold against the query
KeysMeeting ==
    {k \in DOMAIN TheIndex :
        LET score == TokenSortRatio(Lower(course_name), k)
        IN  100 * score.num >= fuzzy_threshold * score.den}

\* the exact tier missed and the restricted pool holds fewer than five keys
SmallPool ==
    /\ ExactKey(TheIndex, Lower(course_name)) = <<>>
    /\ Cardinality(RestrictedPool(TheIndex, Lower(course_name))) < 5

\* C15 (tier widening): when the exact tier misses and the restricted pool
\* has fewer than 5 keys, the lookup finds a match if and only if some key of
\* the whole mapping meets the threshold, keys outside the restricted pool
\* included; when no tier matches the result is the not-found triple.
C15_TierWidening ==
    Looked =>
        /\ SmallPool => (lookup.found <=> KeysMeeting # {})
        /\ lookup.found =>
              \E k \in DOMAIN TheIndex :
                  /\ lookup.path = TheIndex[k][1]
                  /\ \/ lookup.tier = "exact"
                     \/ k \in KeysMeeting
        /\ ~lookup.found => lookup = NotFound

\* the full-fuzzy tier returned a key that the restricted pool excluded
C15_Witness ==
    /\ Looked
    /\ SmallPool
    /\ lookup.found
    /\ lookup.tier = "full-fuzzy"
    /\ KeysMeeting \cap RestrictedPool(TheIndex, Lower(course_name)) = {}

(* ======================================================================= *)
(* The scanner: _scan_single_drive walking one root with os.walk           *)
(* (topdown, followlinks=False, no onerror handler), and what              *)
(* build_file_index makes of the task's outcome.                           *)
(* ======================================================================= *)

\* deepest directory nesting below a root
MaxDepth == 2

(* ---------------------------- the file system -------------------------- *)

\* a regular file
File(name) == [kind |-> "file", name |-> name]

\* a directory and its entries, in the order os.scandir lists them
Dir(name, entries) == [kind |-> "dir", name |-> name, entries |-> entries]

\* a symbolic link to a directory
Link(name) == [kind |-> "link", name |-> name]

\* a directory that cannot be listed
Locked(name) == [kind |-> "locked", name |-> name]

\* nothing exists at the path
Missing == [kind |-> "missing"]

_SKIP_DIRS ==
    { <<"S", "y", "s", "t", "e", "m", " ", "V", "o", "l", "u", "m", "e", " ", "I", "n", "f", "o", "r", "m", "a", "t", "i", "o", "n">>,
      <<"$", "R", "E", "C", "Y", "C", "L", "E", ".", "B", "I", "N">>,
      <<"$", "R", "e", "c", "y", "c", "l", "e", ".", "B", "i", "n">>,
      <<"W", "i", "n", "d", "o", "w", "s">>,
      <<"W", "i", "n", "S", "x", "S">>,
      <<"S", "o", "f", "t", "w", "a", "r", "e", "D", "i", "s", "t", "r", "i", "b", "u", "t", "i", "o", "n">>,
      <<"R", "e", "c", "o", "v", "e", "r", "y">>,
      <<"p", "r", "o", "c">>,
      <<"s", "y", "s">>,
      <<"d", "e", "v">> }

(* --------------------------- _scan_single_drive ------------------------ *)

\* os.path.join(dirpath, name)
Join(dirpath, name) ==
    IF dirpath # <<>> /\ dirpath[Len(dirpath)] = "/" THEN dirpath \o name
    ELSE dirpath \o <<"/">> \o name

RECURSIVE LStripDots(_)
\* s.lstrip(".")
LStripDots(s) ==
    IF s # <<>> /\ Head(s) = "." THEN LStripDots(Tail(s)) ELSE s

\* frozenset(e.lower().lstrip(".") for e in extensions_filter)
Exts(filter) == {LStripDots(Lower(filter[i])) : i \in 1..Len(filter)}

\* Path(fname).suffix
Suffix(fname) == SubSeq(fname, Len(PathStem(fname)) + 1, Len(fname))

\* the file passes the extension filter
ExtWanted(fname, exts) ==
    ~(exts # {} /\ LStripDots(Lower(Suffix(fname))) \notin exts)

\* a sub-directory name is kept if it is not hidden: the deny-list is not
\* consulted
KeptHiddenOnly(d) == ~(d # <<>> /\ Head(d) = ".")

\* a sub-directory name is kept: not d.startswith(".") and d not in _SKIP_DIRS
Kept(d) == ~(d # <<>> /\ Head(d) = ".") /\ d \notin _SKIP_DIRS

\* os.walk sorts the entries of a directory into dirnames (directories and
\* links to directories) and filenames
IsDirEntry(e) == e.kind \in {"dir", "link", "locked"}

RECURSIVE WalkAll(_, _, _)
RECURSIVE Walk(_, _, _)
\* the walk of the directory at dirpath: the paths appended for it, then the
\* walks of its kept sub-directories in order; a link is not followed and a
\* directory that cannot be listed yields nothing
Walk(dirpath, node, exts) ==
    IF node.kind # "dir" THEN [found |-> <<>>, opened |-> {}]
    ELSE LET es    == node.entries
             dirs  == Keep(es, {i \in 1..Len(es) :
                                  IsDirEntry(es[i]) /\ Kept(es[i].name)})
             files == Keep(es, {i \in 1..Len(es) :
                                  /\ ~IsDirEntry(es[i])
                                  /\ ExtWanted(es[i].name, exts)})
             here  == [i \in 1..Len(dirs) |-> Join(dirpath, dirs[i].name)]
                        \o [i \in 1..Len(files) |-> Join(dirpath, files[i].name)]
             below == WalkAll(dirpath, dirs, exts)
         IN  [found |-> here \o below.found,
              opened |-> {dirpath} \cup below.opened]

\* the walks of the sub-directories dirs of dirpath, one after the other
WalkAll(dirpath, dirs, exts) ==
    IF dirs = <<>> THEN [found |-> <<>>, opened |-> {}]
    ELSE LET first == Walk(Join(dirpath, Head(dirs).name), Head(dirs), exts)
             rest  == WalkAll(dirpath, Tail(dirs), exts)
         IN  [found |-> first.found \o rest.found,
              opened |-> first.opened \cup rest.opened]

\* what the task returns
ScanSingleDriveWalk(root, node, filter) ==
    LET w == Walk(root, node, Exts(filter))
    IN  [status |-> "ok", found |-> w.found, opened |-> w.opened]

(* --------------------- the caller: build_file_index -------------------- *)

\* the log record of a collected future
CollectReport(outcome) ==
    IF outcome.status = "ok"
    THEN [level |-> "info", paths |-> Len(outcome.found)]
    ELSE [level |-> "error", paths |-> 0]

(* ------------------------------ inputs --------------------------------- *)

RECURSIVE Depth(_)
RECURSIVE DepthAll(_)
\* the nesting of directories in a node
Depth(node) ==
    IF node.kind # "dir" THEN 0 ELSE 1 + DepthAll(node.entries)

DepthAll(entries) ==
    IF entries = <<>> THEN 0
    ELSE LET a == Depth(Head(entries))
             b == DepthAll(Tail(entries))
         IN  IF a > b THEN a ELSE b

\* what can be at a root path
RootNodes ==
    LET
        NameAb  == <<"a", "b">>
        NameCA  == <<"c", ".", "A">>
        NameAy  == <<"a", ".", "y">>
        NameDev == <<"d", "e", "v">>
        NameDEV == <<"D", "e", "v">>
        NameGit == <<".", "g">>
        NameDot == <<".", "f">>
        \* hidden and deny-listed directories holding files, a hidden file
        \* and a file named like a deny-listed directory
        TreeMixed ==
            Dir(<<>>, << File(NameDev),
                         Dir(NameGit, << File(NameCA) >>),
                         Dir(NameAb, << Dir(NameDev, << File(NameAy) >>),
                                        File(NameCA) >>),
                         File(NameDot) >>)
        \* a deny-listed name in another case, a link to a directory, a
        \* directory that cannot be listed, a link with a deny-listed name
        TreeOdd ==
            Dir(<<>>, << Dir(NameDEV, << File(NameAy) >>),
                         Link(NameAb),
                         Locked(<<"c", "d">>),
                         Link(NameDev) >>)
        \* a deny-listed directory three levels down
        TreeDeep ==
            Dir(<<>>, << Dir(NameAb, << Dir(NameDEV, << Dir(NameDev,
                                                           << File(NameCA) >>),
                                                        File(NameAy) >>) >>) >>)
        TreeEmpty == Dir(<<>>, <<>>)
    IN  {n \in {TreeMixed, TreeOdd, TreeDeep, TreeEmpty, Missing,
                 Locked(<<>>), File(<<>>)} : Depth(n) <= MaxDepth + 1}

\* the root paths: a plain one, a hidden one, one below a deny-listed name
RootPaths == { <<"/", "d">>, <<"/", ".", "h">>,
               <<"/", "d", "e", "v", "/", "d">> }

ExtensionFilters == { <<>>, << <<".", "a">> >>, << <<"Y">>, <<"a">> >> }

(* ------------------------------ actions -------------------------------- *)

ScanInit ==
    /\ BuildIdle
    /\ MatchOff
    /\ DlOff
    /\ LaterOff
    /\ s_pc = "ready"
    /\ root_path \in RootPaths
    /\ root_node \in RootNodes
    /\ extensions_filter \in ExtensionFilters
    /\ scan = [status |-> "none", found |-> <<>>, opened |-> {}]
    /\ report = [level |-> "none", paths |-> 0]

\* the task runs _scan_single_drive to its end
ScanReturn ==
    /\ s_pc = "ready"
    /\ scan' = ScanSingleDriveWalk(root_path, root_node, extensions_filter)
    /\ s_pc' = "scanned"
    /\ UNCHANGED <<root_path, root_node, extensions_filter, report>>
    /\ UNCHANGED <<vars, match_vars, dl_vars, later_vars>>

\* the worker process is lost: future.result() raises
ScanRaise ==
    /\ s_pc = "ready"
    /\ scan' = [status |-> "failed", found |-> <<>>, opened |-> {}]
    /\ s_pc' = "scanned"
    /\ UNCHANGED <<root_path, root_node, extensions_filter, report>>
    /\ UNCHANGED <<vars, match_vars, dl_vars, later_vars>>

\* build_file_index collects the future
ScanCollect ==
    /\ s_pc = "scanned"
    /\ report' = CollectReport(scan)
    /\ s_pc' = "collected"
    /\ UNCHANGED <<root_path, root_node, extensions_filter, scan>>
    /\ UNCHANGED <<vars, match_vars, dl_vars, later_vars>>

ScanNext == ScanReturn \/ ScanRaise \/ ScanCollect

ScanSpec == ScanInit /\ [][ScanNext]_<<vars, others>>

(* ----------------------------- properties ------------------------------ *)

\* the scan task has returned its list
Scanned == s_pc \in {"scanned", "collected"} /\ scan.status = "ok"

RECURSIVE EntriesBelow(_, _)
\* every entry of the tree below dirpath, pruned or not, with its path
EntriesBelow(dirpath, node) ==
    IF node.kind # "dir" THEN {}
    ELSE UNION {{[path |-> Join(dirpath, node.entries[i].name),
                  kind |-> node.entries[i].kind]}
                  \cup EntriesBelow(Join(dirpath, node.entries[i].name),
                                    node.entries[i]) :
                i \in 1..Len(node.entries)}

\* the paths of the directories of the tree, the root included
DirPaths ==
    {root_path} \cup {e.path : e \in {e \in EntriesBelow(root_path, root_node) :
                                        e.kind # "file"}}

\* the name is hidden or in the deny-list
Prunable(name) == (name # <<>> /\ Head(name) = ".") \/ name \in _SKIP_DIRS

\* the names of the directories that path is or lies beneath, among the
\* components of rel, a tail of path
DirNamesOf(path, rel) ==
    LET comps == Pieces(rel, {"/"})
    IN  {comps[k] : k \in {k \in 1..Len(comps) :
                             k < Len(comps) \/ path \in DirPaths}}

\* the part of a path below the root
BelowRoot(path) == SubSeq(path, Len(root_path) + 1, Len(path))

\* C16 as stated (scanner pruning): no returned path is, or lies beneath, a
\* directory whose name starts with "." or is in _SKIP_DIRS, and no such
\* directory, nor anything under it, is opened.
C16_NoPrunableDirectory ==
    Scanned =>
        /\ \A i \in 1..Len(scan.found) :
              \A name \in DirNamesOf(scan.found[i], scan.found[i]) :
                  ~Prunable(name)
        /\ \A d \in scan.opened :
              \A name \in DirNamesOf(d, d) : ~Prunable(name)

\* C16 amended: no returned path is, or lies beneath, a directory below the
\* scan root whose name starts with "." or is in _SKIP_DIRS, and no such
\* directory, nor anything under it, is opened; the root itself and the
\* directories above it are scanned whatever their names.
C16_NoPrunableDirectoryBelowRoot ==
    Scanned =>
        /\ \A i \in 1..Len(scan.found) :
              \A name \in DirNamesOf(scan.found[i], BelowRoot(scan.found[i])) :
                  ~Prunable(name)
        /\ \A d \in scan.opened :
              \A name \in DirNamesOf(d, BelowRoot(d)) : ~Prunable(name)

\* a deny-listed directory holding a file sits in an opened sub-directory of
\* the root, and the scan returned paths from beside it
C16_Witness ==
    /\ Scanned
    /\ \E e \in EntriesBelow(root_path, root_node) :
          /\ e.kind = "dir"
          /\ PathName(e.path) \in _SKIP_DIRS
          /\ \E f \in EntriesBelow(root_path, root_node) :
                f.kind = "file" /\ Len(f.path) > Len(e.path)
                  /\ SubSeq(f.path, 1, Len(e.path) + 1) = e.path \o <<"/">>
          /\ \E d \in scan.opened :
                d # root_path /\ Join(d, PathName(e.path)) = e.path
    /\ Len(scan.found) >= 2

\* nothing usable is at the root path: it does not exist, cannot be listed
\* or is not a directory
RootUnusable == root_node.kind # "dir"

\* C17 (root-level failure): a root that does not exist or cannot be read is
\* reported to the caller as a failure of that root, unlike a root that was
\* scanned and is empty, and it contributes no path.
C17_UnusableRootReported ==
    s_pc = "collected" =>
        /\ RootUnusable => report.level = "error"
        /\ RootUnusable => scan.found = <<>>

(* ======================================================================= *)
(* The downloader (downloader.py): main assigns every course of the sheet  *)
(* to one of the two disks, saves the assignment, then downloads the       *)
(* completed courses with download_course.  Course names here hold no      *)
(* character that sanitize_name changes, so a course folder is named by    *)
(* its course.                                                             *)
(* ======================================================================= *)

\* runs of the downloader the model follows
MaxRuns == 2

(* ------------------------------ the sheet ------------------------------ *)

\* the indices of DISKS
DiskIdx == {0, 1}

\* the asset columns, in the order of ASSET_COLS
Assets == <<"Course Outline", "PPTs", "Written Assets">>

AssetSet == {Assets[i] : i \in 1..Len(Assets)}

\* a cell without a link
NoLink == ""

\* a link whose folder ID cannot be parsed
BadLink == "unparseable"

\* the rows parse_courses returns; a link is named by its Drive folder ID
Courses ==
    << [course |-> "X", status |-> "Completed",
        links |-> [a \in AssetSet |->
                     IF a = "Written Assets" THEN "id2" ELSE "id1"]],
       [course |-> "Y", status |-> "Completed",
        links |-> [a \in AssetSet |->
                     IF a = "Course Outline" THEN BadLink ELSE NoLink]],
       [course |-> "Z", status |-> "In Production",
        links |-> [a \in AssetSet |->
                     IF a = "Course Outline" THEN "id3" ELSE NoLink]] >>

CourseSet == {Courses[i].course : i \in 1..Len(Courses)}

\* the values free_bytes reports for a disk
FreeValues == {10, 11, 13}

(* ------------------------------ the disks ------------------------------ *)

\* no course folder
NoFolder == [exists |-> FALSE, assets |-> [a \in AssetSet |-> "absent"]]

\* a course folder just made: no asset folder in it
EmptyFolder == [exists |-> TRUE, assets |-> [a \in AssetSet |-> "absent"]]

\* a course folder left by an earlier download: the first asset folder holds
\* files, the others are not there
PartFolder ==
    [exists |-> TRUE,
     assets |-> [a \in AssetSet |-> IF a = Assets[1] THEN "files" ELSE "absent"]]

\* a course folder whose asset folders all hold files
FullFolder == [exists |-> TRUE, assets |-> [a \in AssetSet |-> "files"]]

\* folder.exists()
FolderExists(d, c) == disks[d + 1][c].exists

\* folder.exists() and any(folder.iterdir())
FolderNonEmpty(d, c) ==
    /\ FolderExists(d, c)
    /\ \E a \in AssetSet : disks[d + 1][c].assets[a] # "absent"

\* find_existing_disk : the first disk holding a non-empty folder of the
\* course, as a list of at most one index
FindExistingDisk(c) ==
    IF FolderNonEmpty(0, c) THEN <<0>>
    ELSE IF FolderNonEmpty(1, c) THEN <<1>>
    ELSE <<>>

(* ----------------------------- the state file -------------------------- *)

EmptyState == [k \in {} |-> 0]

\* load_state : the dictionary of the file, {} when the file is missing or
\* is not JSON
LoadState(file) ==
    IF file.kind = "json" THEN file.data ELSE EmptyState

\* state[name] = disk
StateSet(st, name, disk) ==
    [k \in DOMAIN st \cup {name} |-> IF k = name THEN disk ELSE st[k]]

(* ------------------------------ assignment ----------------------------- *)

\* the disk chosen for a new course: a disk with over 20% more free space
\* than the other, else the disk with fewer new courses in this run (free *
\* 1.20 is compared exactly, as 6/5)
ChooseDisk(free, counts) ==
    IF 5 * free[1] > 6 * free[2] THEN 0
    ELSE IF 5 * free[2] > 6 * free[1] THEN 1
    ELSE IF counts[1] <= counts[2] THEN 0 ELSE 1

(* ---------------------------- download_course -------------------------- *)

\* extract_folder_id : the ID of a link, "" when none can be parsed
ExtractFolderId(url) == IF url = BadLink THEN "" ELSE url

\* how a call of download_drive_folder can end once rclone runs: "ok" leaves
\* files and returns True, "failed" leaves the folder as made and returns
\* False, "partial" leaves files and returns False
Outcomes == {"ok", "failed", "partial"}

\* the folder is never taken as populated
FolderIsPopulatedNever(st) == FALSE

\* folder_is_populated : the folder exists and holds at least one file
FolderIsPopulated(st) == st = "files"

\* every attempted folder ID is remembered, downloaded or not
SeenAfterAttempt(seen, id, ok) == IF id # "" THEN seen \cup {id} ELSE seen

\* seen_ids after download_drive_folder returned ok for folder ID id
SeenAfter(seen, id, ok) == IF id # "" /\ ok THEN seen \cup {id} ELSE seen

RECURSIVE AssetLoop(_, _, _, _, _, _, _)
\* the loop over course["links"] from asset i on: folder is the state of the
\* asset folders in the course folder, seen the set seen_ids, results the
\* dictionary so far, called the assets download_drive_folder was called
\* for, out how each of its calls ends if rclone runs
AssetLoop(course, i, folder, seen, results, called, out) ==
    IF i > Len(Assets)
    THEN [folder |-> folder, results |-> results, called |-> called]
    ELSE LET a   == Assets[i]
             url == course.links[a]
             id  == ExtractFolderId(url)
             res(r) == [k \in DOMAIN results \cup {a} |->
                          IF k = a THEN r ELSE results[k]]
         IN  IF url = NoLink
             THEN AssetLoop(course, i + 1, folder, seen, res("no_link"),
                            called, out)
             ELSE IF FolderIsPopulated(folder[a])
             THEN AssetLoop(course, i + 1, folder,
                            IF id # "" THEN seen \cup {id} ELSE seen,
                            res("skipped"), called, out)
             ELSE IF id # "" /\ id \in seen
             THEN AssetLoop(course, i + 1, folder, seen, res("skipped"),
                            called, out)
             ELSE IF id = ""
             THEN AssetLoop(course, i + 1, folder, seen, res("failed"),
                            Append(called, a), out)
             ELSE LET ok    == out[a] = "ok"
                      after == IF out[a] = "failed"
                               THEN IF folder[a] = "absent" THEN "empty"
                                    ELSE folder[a]
                               ELSE "files"
                  IN  AssetLoop(course, i + 1, [folder EXCEPT ![a] = after],
                                SeenAfter(seen, id, ok),
                                res(IF ok THEN "ok" ELSE "failed"),
                                Append(called, a), out)

\* download_course(course, disk_idx) on the folders of the disks
DownloadCourse(course, disk_idx, out) ==
    LET old  == disks[disk_idx + 1][course.course]
        done == AssetLoop(course, 1, old.assets, {}, EmptyState, <<>>, out)
    IN  [disks |-> [disks EXCEPT ![disk_idx + 1][course.course] =
                                     [exists |-> TRUE, assets |-> done.folder]],
         results |-> done.results, called |-> done.called]

\* the courses main downloads: completed, with at least one link
Completable ==
    Keep(Courses, {i \in 1..Len(Courses) :
                     /\ Courses[i].status = "Completed"
                     /\ \E a \in AssetSet : Courses[i].links[a] # NoLink})

(* ------------------------------ inputs --------------------------------- *)

\* the state files main can find: none, an unreadable one, or a dictionary
\* for some of the courses
StateFiles ==
    {[kind |-> "missing", data |-> <<>>], [kind |-> "garbage", data |-> <<>>]}
      \cup {[kind |-> "json", data |-> st] :
              st \in UNION {[cs -> DiskIdx] : cs \in SUBSET {"X", "Y"}}}

\* the folders main can find: each course has a folder on at most one disk
DiskContents ==
    {dk \in [{1, 2} -> [CourseSet -> {NoFolder, PartFolder, FullFolder}]] :
        /\ \A c \in CourseSet : dk[1][c] = NoFolder \/ dk[2][c] = NoFolder
        /\ dk[1]["Z"] = NoFolder /\ dk[2]["Z"] = NoFolder}

NoAssign == [course |-> "none"]

NoDownload == [course |-> "none"]

(* ------------------------------ actions -------------------------------- *)

DlInit ==
    /\ BuildIdle
    /\ MatchOff
    /\ ScanOff
    /\ LaterOff
    /\ d_pc = "idle"
    /\ state_file \in StateFiles
    /\ disks \in DiskContents
    /\ state = EmptyState
    /\ new_assignments = <<0, 0>>
    /\ d_idx = 0
    /\ dry_run = FALSE
    /\ runs = 0
    /\ last_assign = NoAssign
    /\ last_download = NoDownload

\* main starts: the state file is loaded
StartRun(dry) ==
    /\ d_pc = "idle"
    /\ runs < MaxRuns
    /\ state' = LoadState(state_file)
    /\ new_assignments' = <<0, 0>>
    /\ d_idx' = 1
    /\ dry_run' = dry
    /\ d_pc' = "assign"
    /\ last_assign' = NoAssign
    /\ last_download' = NoDownload
    /\ UNCHANGED <<state_file, disks, runs>>
    /\ UNCHANGED <<vars, match_vars, scan_vars, later_vars>>

\* one iteration of the assignment loop, free being what free_bytes reports
\* for the two disks if it is asked
Assign(free) ==
    /\ d_pc = "assign"
    /\ d_idx <= Len(Courses)
    /\ LET name     == Courses[d_idx].course
           existing == FindExistingDisk(name)
           chosen   == ChooseDisk(free, new_assignments)
       IN  IF name \in DOMAIN state
           THEN /\ last_assign' = [course |-> name, new |-> FALSE,
                                   disk |-> state[name]]
                /\ UNCHANGED <<state, new_assignments>>
           ELSE IF existing # <<>>
           THEN /\ state' = StateSet(state, name, existing[1])
                /\ last_assign' = [course |-> name, new |-> FALSE,
                                   disk |-> existing[1]]
                /\ UNCHANGED new_assignments
           ELSE /\ state' = StateSet(state, name, chosen)
                /\ new_assignments' =
                      [new_assignments EXCEPT ![chosen + 1] = @ + 1]
                /\ last_assign' = [course |-> name, new |-> TRUE,
                                   disk |-> chosen, free |-> free,
                                   counts |-> new_assignments]
    /\ d_idx' = d_idx + 1
    /\ UNCHANGED <<d_pc, state_file, disks, dry_run, runs, last_download>>
    /\ UNCHANGED <<vars, match_vars, scan_vars, later_vars>>

\* save_state after the assignment loop
SaveState ==
    /\ d_pc = "assign"
    /\ d_idx > Len(Courses)
    /\ state_file' = [kind |-> "json", data |-> state]
    /\ d_pc' = "download"
    /\ d_idx' = 1
    /\ last_assign' = NoAssign
    /\ UNCHANGED <<disks, state, new_assignments, dry_run, runs, last_download>>
    /\ UNCHANGED <<vars, match_vars, scan_vars, later_vars>>

\* one iteration of the download loop, out being how each rclone run ends
Download(out) ==
    /\ d_pc = "download"
    /\ d_idx <= Len(Completable)
    /\ LET course == Completable[d_idx]
           disk_i == state[course.course]
           done   == DownloadCourse(course, disk_i, out)
       IN  IF dry_run
           THEN UNCHANGED <<disks, last_download>>
           ELSE /\ disks' = done.disks
                /\ last_download' =
                      [course |-> course.course, disk |-> disk_i,
                       existing |-> {d \in DiskIdx :
                                       FolderNonEmpty(d, course.course)},
                       before |-> disks[disk_i + 1][course.course].assets,
                       called |-> done.called,
                       results |-> done.results]
    /\ d_idx' = d_idx + 1
    /\ UNCHANGED <<d_pc, state_file, state, new_assignments, dry_run, runs,
                   last_assign>>
    /\ UNCHANGED <<vars, match_vars, scan_vars, later_vars>>

\* the user interrupts the download loop, or the loop ends: main returns
EndRun ==
    /\ d_pc = "download"
    /\ d_pc' = "idle"
    /\ runs' = runs + 1
    /\ state' = EmptyState
    /\ new_assignments' = <<0, 0>>
    /\ d_idx' = 0
    /\ dry_run' = FALSE
    /\ last_download' = NoDownload
    /\ UNCHANGED <<state_file, disks, last_assign>>
    /\ UNCHANGED <<vars, match_vars, scan_vars, later_vars>>

DlNext ==
    \/ \E dry \in BOOLEAN : StartRun(dry)
    \/ \E f0, f1 \in FreeValues : Assign(<<f0, f1>>)
    \/ SaveState
    \/ \E out \in [AssetSet -> Outcomes] : Download(out)
    \/ EndRun

DlSpec == DlInit /\ [][DlNext]_<<vars, others>>

(* ----------------------------- properties ------------------------------ *)

\* the disk holds asset folders of the course
HasAssetFolders(d, c) ==
    /\ disks[d + 1][c].exists
    /\ \E a \in AssetSet : disks[d + 1][c].assets[a] # "absent"

\* C18 (one disk per course): no course ever has asset folders on both
\* disks, every download of a course going to the disk its state entry names.
C18_OneDiskPerCourse ==
    d_pc # "off" =>
        \A c \in CourseSet : ~(HasAssetFolders(0, c) /\ HasAssetFolders(1, c))

\* C19 (existing folder wins): a course that had a non-empty folder on one
\* disk when download_course was called for it was downloaded to that disk,
\* also when the state file recorded the other disk.
C19_ExistingFolderWins ==
    last_download.course # "none" =>
        \A e \in DiskIdx :
            last_download.existing = {e} => last_download.disk = e

\* C20 (more free space wins): a new course is assigned to the disk that has
\* more free space when it is assigned, whatever the two values and whatever
\* the number of courses assigned before it in the run.
C20_MoreFreeSpaceWins ==
    (last_assign.course # "none" /\ last_assign.new) =>
        /\ last_assign.free[1] > last_assign.free[2] => last_assign.disk = 0
        /\ last_assign.free[2] > last_assign.free[1] => last_assign.disk = 1

\* download_course has been called in this run
Downloaded == last_download.course # "none"

\* the links of the course of the latest download_course call
LastLinks ==
    LET i == CHOOSE i \in 1..Len(Courses) :
                 Courses[i].course = last_download.course
    IN  Courses[i].links

\* the assets download_drive_folder was called for in the latest call
LastCalled == {last_download.called[i] : i \in 1..Len(last_download.called)}

\* C21 as stated (resumable downloads): every asset whose folder held a file
\* when download_course was called is marked 'skipped', and
\* download_drive_folder is not called for it.
C21_PopulatedIsSkipped ==
    Downloaded =>
        \A a \in AssetSet :
            last_download.before[a] = "files" =>
                /\ last_download.results[a] = "skipped"
                /\ a \notin LastCalled

\* C21 amended: every asset that has a link and whose folder held a file when
\* download_course was called is marked 'skipped' (one without a link is
\* marked 'no_link'); download_drive_folder is called for no asset whose
\* folder held a file, so a later run downloads only into unpopulated
\* folders.
C21_LinkedPopulatedIsSkipped ==
    Downloaded =>
        \A a \in AssetSet :
            last_download.before[a] = "files" =>
                /\ a \notin LastCalled
                /\ last_download.results[a] =
                      IF LastLinks[a] = NoLink THEN "no_link" ELSE "skipped"

\* in a later run a populated asset folder was skipped while another asset
\* of the course, not yet populated, was downloaded
C21_Witness ==
    /\ Downloaded
    /\ runs >= 1
    /\ \E a, b \in AssetSet :
          /\ last_download.before[a] = "files"
          /\ last_download.results[a] = "skipped"
          /\ last_download.before[b] # "files"
          /\ b \in LastCalled
          /\ last_download.results[b] = "ok"

\* the positions of Assets whose link of the latest call carries the same
\* parseable folder ID, the first before the second
SameIdPairs ==
    {p \in (1..Len(Assets)) \X (1..Len(Assets)) :
        /\ p[1] < p[2]
        /\ ExtractFolderId(LastLinks[Assets[p[1]]]) # ""
        /\ ExtractFolderId(LastLinks[Assets[p[1]]]) =
               ExtractFolderId(LastLinks[Assets[p[2]]])}

\* C26 (result totality and de-duplication): the dictionary returned by
\* download_course has exactly one entry per asset of course['links'], each
\* 'ok', 'skipped', 'no_link' or 'failed'; download_drive_folder is called at
\* most once per asset; an asset whose folder ID an earlier asset downloaded
\* successfully or was found present with is 'skipped' and not downloaded;
\* an asset with an unpopulated folder whose ID only failed before is
\* attempted again.
C26_TotalAndDeduplicated ==
    Downloaded =>
        /\ DOMAIN last_download.results = DOMAIN LastLinks
        /\ \A a \in AssetSet :
              last_download.results[a] \in {"ok", "skipped", "no_link", "failed"}
        /\ \A i, j \in 1..Len(last_download.called) :
              i # j => last_download.called[i] # last_download.called[j]
        /\ \A p \in SameIdPairs :
              LET a == Assets[p[1]]
                  b == Assets[p[2]]
              IN  /\ last_download.results[a] \in {"ok", "skipped"} =>
                        /\ b \notin LastCalled
                        /\ last_download.results[b] = "skipped"
                  /\ ( /\ last_download.before[b] # "files"
                       /\ \A q \in SameIdPairs :
                             q[2] = p[2] =>
                                 last_download.results[Assets[q[1]]] = "failed" )
                        => b \in LastCalled

\* one call in which a folder ID downloaded successfully is skipped at its
\* second asset
C26_Witness ==
    /\ Downloaded
    /\ \E p \in SameIdPairs :
          /\ last_download.results[Assets[p[1]]] = "ok"
          /\ last_download.before[Assets[p[2]]] # "files"
          /\ last_download.results[Assets[p[2]]] = "skipped"

\* one call in which a folder ID whose download failed is attempted again
C26_RetryWitness ==
    /\ Downloaded
    /\ \E p \in SameIdPairs :
          /\ last_download.results[Assets[p[1]]] = "failed"
          /\ Assets[p[1]] \in LastCalled
          /\ Assets[p[2]] \in LastCalled

(* --------------------- the cache under --no_cache ----------------------- *)

\* C22 (--no_cache always rescans): a call of build_file_index with
\* cache_max_age_hours = 0, as main passes under --no_cache, never returns
\* the cached index, whatever the modification time and the content of the
\* cache file.
C22_NoCacheAlwaysRescans ==
    (result.status = "returned" /\ cache_max_age_hours = 0)
    => result.source # "cache"

(* ------------- main and the download step of run_audit ------------------ *)

\* largest free space of the destination, in GB
MaxFreeGb == 3

\* DEFAULT_CONFIG, with multiprocessing.cpu_count() = 4
DefaultConfig ==
    [fuzzy_threshold |-> 75, max_workers |-> 4, min_free_gb |-> 5]

\* load_config : the keys of config.json override the defaults
LoadConfig(file) ==
    [k \in DOMAIN DefaultConfig |->
        IF file[k].given THEN file[k].value ELSE DefaultConfig[k]]

\* args.x or config[...] : None and 0 are both falsy
ArgOrConfig(arg, conf) ==
    IF arg.given /\ arg.value # 0 THEN arg.value ELSE conf

\* args.x if args.x is not None else config[...]
ArgIfNotNone(arg, conf) == IF arg.given THEN arg.value ELSE conf

\* the values main hands to run_audit
Resolve(a, file) ==
    LET config == LoadConfig(file)
    IN  [fuzzy_threshold |-> ArgOrConfig(a.fuzzy_threshold,
                                         config.fuzzy_threshold),
         max_workers     |-> ArgOrConfig(a.workers, config.max_workers),
         min_free_gb     |-> ArgIfNotNone(a.min_free_gb, config.min_free_gb)]

\* get_disk_usage : the free space of the filesystem, float("inf") when the
\* usage cannot be read
GetDiskUsage(free, readable) == [finite |-> readable, free_gb |-> free]

\* free_gb <= min_free_gb
LowSpaceInclusive(usage, min_free_gb) ==
    usage.finite /\ usage.free_gb <= min_free_gb

\* free_gb < min_free_gb : never true of float("inf")
LowSpace(usage, min_free_gb) == usage.finite /\ usage.free_gb < min_free_gb

\* extract_drive_file_id : the ID of a link, "" (None) when no pattern
\* matches
ExtractDriveFileId(link) == IF link = BadLink THEN "" ELSE link

\* the links of course_assets[c] with a parseable ID
Parseable(c) ==
    {i \in DOMAIN course_assets[c].links :
        ExtractDriveFileId(course_assets[c].links[i]) # ""}

Given(v) == [given |-> TRUE, value |-> v]

\* the command lines: each option absent, given as 0, given as another value
ArgSets ==
    [fuzzy_threshold : {NotGiven, Given(0), Given(60)},
     workers         : {NotGiven, Given(0), Given(2)},
     min_free_gb     : {NotGiven, Given(0), Given(2)}]

\* config.json sets none of the keys or all of them
ConfigFiles ==
    {[fuzzy_threshold |-> NotGiven, max_workers |-> NotGiven,
      min_free_gb |-> NotGiven],
     [fuzzy_threshold |-> Given(80), max_workers |-> Given(1),
      min_free_gb |-> Given(1)]}

\* the queues the step builds: every course has at least one queued link
CourseAssetLists ==
    {<<[course |-> "A", links |-> <<"idA1", BadLink, "idA2">>],
       [course |-> "B", links |-> <<"idB1">>]>>,
     <<[course |-> "A", links |-> <<BadLink>>],
       [course |-> "B", links |-> <<"idB1", "idB2">>]>>}

AuditInit ==
    /\ BuildIdle
    /\ MatchOff
    /\ ScanOff
    /\ DlOff
    /\ ReportOff
    /\ RetryOff
    /\ CollectOff
    /\ a_pc = "main"
    /\ args \in ArgSets
    /\ config_file \in ConfigFiles
    /\ passed = [fuzzy_threshold |-> 0, max_workers |-> 0, min_free_gb |-> 0]
    /\ course_assets \in CourseAssetLists
    /\ free_gb \in 0..MaxFreeGb
    /\ a_course = 0
    /\ a_asset = 0
    /\ guard_log = <<>>
    /\ attempts = {}
    /\ counters = [downloaded_ok |-> 0, downloaded_fail |-> 0,
                   skipped_courses |-> 0]

\* main resolves the options and calls run_audit, which reaches step 5
Main ==
    /\ a_pc = "main"
    /\ passed' = Resolve(args, config_file)
    /\ a_pc' = "course"
    /\ a_course' = 1
    /\ UNCHANGED <<args, config_file, course_assets, free_gb, a_asset,
                   guard_log, attempts, counters>>
    /\ UNCHANGED <<vars, match_vars, scan_vars, dl_vars, report_vars, retry_vars,
                 collect_vars>>

\* the loop reaches a course and checks the free space before any download
ReachCourse(readable) ==
    /\ a_pc = "course"
    /\ a_course <= Len(course_assets)
    /\ LET low == LowSpace(GetDiskUsage(free_gb, readable),
                           passed.min_free_gb)
       IN  /\ guard_log' = Append(guard_log,
                                  [course |-> a_course, free_gb |-> free_gb,
                                   readable |-> readable, skipped |-> low])
           /\ IF low
              THEN /\ counters' = [counters EXCEPT !.skipped_courses = @ + 1]
                   /\ a_course' = a_course + 1
                   /\ UNCHANGED <<a_pc, a_asset>>
              ELSE /\ a_pc' = "assets"
                   /\ a_asset' = 1
                   /\ UNCHANGED <<counters, a_course>>
    /\ UNCHANGED <<args, config_file, passed, course_assets, free_gb,
                   attempts>>
    /\ UNCHANGED <<vars, match_vars, scan_vars, dl_vars, report_vars, retry_vars,
                 collect_vars>>

\* one iteration of the inner loop: a link without an ID is passed over,
\* the others go to download_from_gdrive, which returns (True, path) or
\* (False, message), or raises when the destination cannot be created
DownloadAsset(outcome) ==
    /\ a_pc = "assets"
    /\ LET links == course_assets[a_course].links
           id    == ExtractDriveFileId(links[a_asset])
           last  == a_asset = Len(links)
       IN  /\ attempts' = IF id = "" THEN attempts
                          ELSE attempts \cup {<<a_course, a_asset>>}
           /\ counters' =
                 IF id = "" \/ outcome = "raised" THEN counters
                 ELSE IF outcome = "ok"
                 THEN [counters EXCEPT !.downloaded_ok = @ + 1]
                 ELSE [counters EXCEPT !.downloaded_fail = @ + 1]
           /\ free_gb' = IF id # "" /\ outcome = "ok" /\ free_gb > 0
                         THEN free_gb - 1 ELSE free_gb
           /\ IF id # "" /\ outcome = "raised"
              THEN /\ a_pc' = "raised"
                   /\ UNCHANGED <<a_course, a_asset>>
              ELSE IF last
              THEN /\ a_pc' = "course"
                   /\ a_course' = a_course + 1
                   /\ UNCHANGED a_asset
              ELSE /\ a_asset' = a_asset + 1
                   /\ UNCHANGED <<a_pc, a_course>>
    /\ UNCHANGED <<args, config_file, passed, course_assets, guard_log>>
    /\ UNCHANGED <<vars, match_vars, scan_vars, dl_vars, report_vars, retry_vars,
                 collect_vars>>

\* the loop over the courses is exhausted
EndStep ==
    /\ a_pc = "course"
    /\ a_course > Len(course_assets)
    /\ a_pc' = "done"
    /\ UNCHANGED <<args, config_file, passed, course_assets, free_gb,
                   a_course, a_asset, guard_log, attempts, counters>>
    /\ UNCHANGED <<vars, match_vars, scan_vars, dl_vars, report_vars, retry_vars,
                 collect_vars>>

AuditNext ==
    \/ Main
    \/ \E readable \in BOOLEAN : ReachCourse(readable)
    \/ \E outcome \in {"ok", "failed", "raised"} : DownloadAsset(outcome)
    \/ EndStep

AuditSpec == AuditInit /\ [][AuditNext]_<<vars, others>>

\* the assets of course c handed to download_from_gdrive
Attempted(c) == {i \in DOMAIN course_assets[c].links : <<c, i>> \in attempts}

\* the loop has left course c
Left(c) == a_course > c \/ a_pc \in {"done", "raised"}

C29_CommandLineWins ==
    a_pc \notin {"off", "main"}
    => /\ args.fuzzy_threshold.given
             => passed.fuzzy_threshold = args.fuzzy_threshold.value
       /\ args.workers.given => passed.max_workers = args.workers.value
       /\ args.min_free_gb.given
             => passed.min_free_gb = args.min_free_gb.value

(* ------------------------- the report's row colour ---------------------- *)

\* the asset columns, in the order of ASSET_COLUMNS
AssetOrder ==
    <<"Course_Outline", "PPTs", "Written_Assets", "Final_Videos",
      "Raw_Videos", "Course_Artifacts">>

\* str(value).startswith("Yes") on the values run_audit writes to
\* found_locally: "No", "Yes" and "Yes (Downloaded)"
StartsWithYes(value) == value \in {"Yes", "Yes (Downloaded)"}

\* every cell with a status counts as a link, "No Link" included
CountedAsLinkAll(value) == value # "Not Checked"

\* the statuses counted in total_drive
CountedAsLink(value) == value \notin {"No Link", "Not Checked"}

\* the fill generate_report gives a row of the sheet
RowFill(r) ==
    LET local_indices == 1..Len(AssetOrder)
        drive_indices == 1..Len(AssetOrder)
        local_yes   == Cardinality({i \in local_indices :
                                       StartsWithYes(r[i].local)})
        drive_avail == Cardinality({i \in drive_indices :
                                       r[i].drive = "Available"})
        total_local == Cardinality(local_indices)
        total_drive == Cardinality({i \in drive_indices :
                                       CountedAsLink(r[i].drive)})
    IN  IF local_yes = total_local
           /\ (total_drive = 0 \/ drive_avail = total_drive)
        THEN "green"
        ELSE IF local_yes = 0 /\ drive_avail = 0 THEN "red"
        ELSE "yellow"

\* the pairs of cells run_audit produces for one asset: found or not,
\* downloaded, and the link absent, live, broken or not checked
Cells ==
    {[local |-> "Yes", drive |-> "Available"],
     [local |-> "Yes", drive |-> "No Link"],
     [local |-> "Yes (Downloaded)", drive |-> "Available"],
     [local |-> "No", drive |-> "No Link"],
     [local |-> "No", drive |-> "Broken Link"],
     [local |-> "No", drive |-> "Available"],
     [local |-> "Yes", drive |-> "Link Present (not checked)"]}

ReportInit ==
    /\ BuildIdle
    /\ MatchOff
    /\ ScanOff
    /\ DlOff
    /\ AuditOff
    /\ RetryOff
    /\ CollectOff
    /\ r_pc = "written"
    /\ row \in [1..Len(AssetOrder) -> Cells]
    /\ fill = "none"

\* generate_report colours the row
ColourRow ==
    /\ r_pc = "written"
    /\ fill' = RowFill(row)
    /\ r_pc' = "filled"
    /\ UNCHANGED row
    /\ UNCHANGED <<vars, match_vars, scan_vars, dl_vars, audit_vars,
                   retry_vars, collect_vars>>

ReportNext == ColourRow

ReportSpec == ReportInit /\ [][ReportNext]_<<vars, others>>

\* the asset is found locally
FoundLocally(i) == row[i].local # "No"

\* the asset has a Drive link
HasLink(i) == row[i].drive # "No Link"

\* C24 (report row colour): a row gets exactly one of the three colours;
\* green if and only if all six assets are found locally and every Drive
\* link that exists is 'Available'; red if and only if no asset is found
\* locally and no Drive link is 'Available'; yellow in every other case.
C24_RowColour ==
    r_pc = "filled"
    => LET all_found == \A i \in DOMAIN row : FoundLocally(i)
           all_live  == \A i \in DOMAIN row :
                            HasLink(i) => row[i].drive = "Available"
           none_found == \A i \in DOMAIN row : ~FoundLocally(i)
           none_live  == \A i \in DOMAIN row : row[i].drive # "Available"
       IN  /\ Len(row) = 6
           /\ fill \in {"green", "yellow", "red"}
           /\ fill = "green" <=> (all_found /\ all_live)
           /\ fill = "red" <=> (none_found /\ none_live)
           /\ fill = "yellow" <=> ( /\ ~(all_found /\ all_live)
                                    /\ ~(none_found /\ none_live) )

\* a green row with a downloaded asset and an asset without a link
C24_Witness ==
    /\ r_pc = "filled"
    /\ fill = "green"
    /\ \E i, j \in DOMAIN row :
          /\ row[i].local = "Yes (Downloaded)"
          /\ row[j].drive = "No Link"

(* ------------------- download_drive_folder's retry loop ----------------- *)

\* largest number of attempts a caller allows
MaxRetries == 4

\* the factor of the wait between attempts, in seconds
RetryWaitSeconds == 15

\* the wait is the same after every attempt
WaitFlat(n) == RetryWaitSeconds

\* wait = 15 * attempt
Wait(n) == RetryWaitSeconds * n

\* one rclone run of the loop: how subprocess.run ended
Run(n, rc) == [kind |-> "run", attempt |-> n, result |-> rc,
                   seconds |-> 0]

\* one time.sleep of the loop
Slept(n, seconds) == [kind |-> "sleep", attempt |-> n, result |-> "slept",
                      seconds |-> seconds]

RetryInit ==
    /\ BuildIdle
    /\ MatchOff
    /\ ScanOff
    /\ DlOff
    /\ AuditOff
    /\ ReportOff
    /\ CollectOff
    /\ t_pc = "called"
    /\ folder_url \in {"id1", "id2", BadLink}
    /\ retries \in 0..MaxRetries
    /\ attempt = 0
    /\ mkdir_called = FALSE
    /\ events = <<>>
    /\ returned = FALSE

\* the function parses the link, creates the destination and enters the loop
Enter ==
    /\ t_pc = "called"
    /\ IF ExtractFolderId(folder_url) = ""
       THEN /\ t_pc' = "returned"
            /\ returned' = FALSE
            /\ UNCHANGED <<mkdir_called, attempt>>
       ELSE /\ mkdir_called' = TRUE
            /\ IF retries >= 1
               THEN /\ t_pc' = "attempt"
                    /\ attempt' = 1
                    /\ UNCHANGED returned
               ELSE /\ t_pc' = "returned"
                    /\ returned' = FALSE
                    /\ UNCHANGED attempt
    /\ UNCHANGED <<folder_url, retries, events>>
    /\ UNCHANGED <<vars, match_vars, scan_vars, dl_vars, audit_vars,
                   report_vars, collect_vars>>

\* one pass of the loop body up to the test of attempt < retries:
\* subprocess.run ends with exit code 0, with another exit code, with an
\* Exception, or with a KeyboardInterrupt, which the function lets through
RunRclone(rc) ==
    /\ t_pc = "attempt"
    /\ events' = Append(events, Run(attempt, rc))
    /\ IF rc = "zero"
       THEN t_pc' = "returned" /\ returned' = TRUE
       ELSE IF rc = "interrupt"
       THEN t_pc' = "interrupted" /\ UNCHANGED returned
       ELSE IF attempt < retries
       THEN t_pc' = "wait" /\ UNCHANGED returned
       ELSE t_pc' = "returned" /\ returned' = FALSE
    /\ UNCHANGED <<folder_url, retries, attempt, mkdir_called>>
    /\ UNCHANGED <<vars, match_vars, scan_vars, dl_vars, audit_vars,
                   report_vars, collect_vars>>

\* time.sleep(wait), then the next pass
Sleep ==
    /\ t_pc = "wait"
    /\ events' = Append(events, Slept(attempt, Wait(attempt)))
    /\ attempt' = attempt + 1
    /\ t_pc' = "attempt"
    /\ UNCHANGED <<folder_url, retries, mkdir_called, returned>>
    /\ UNCHANGED <<vars, match_vars, scan_vars, dl_vars, audit_vars,
                   report_vars, collect_vars>>

RetryNext ==
    \/ Enter
    \/ \E rc \in {"zero", "nonzero", "raised", "interrupt"} : RunRclone(rc)
    \/ Sleep

RetrySpec == RetryInit /\ [][RetryNext]_<<vars, others>>

\* the positions of the rclone runs among the events
Runs == {i \in DOMAIN events : events[i].kind = "run"}

\* C27 (retry protocol): with a parseable folder ID rclone runs at most
\* `retries` times, the attempts numbered 1, 2, ...; a run with exit code 0
\* is the last event and the function returns True; the function sleeps
\* 15 x attempt seconds after a failed or raising attempt that is not the
\* last allowed one, and nowhere else; it returns False exactly when all
\* `retries` attempts ran and none ended with exit code 0.  With an
\* unparseable link it returns False, runs nothing and does not create the
\* destination.
C27_RetryProtocol ==
    IF folder_url = BadLink
    THEN /\ events = <<>>
         /\ ~mkdir_called
         /\ t_pc \in {"called", "returned"}
         /\ ~returned
    ELSE /\ Cardinality(Runs) <= retries
         /\ \A i \in DOMAIN events :
               LET e == events[i]
               IN  IF i % 2 = 1
                   THEN /\ e.kind = "run"
                        /\ e.attempt = (i + 1) \div 2
                        /\ e.result = "zero"
                              => /\ i = Len(events)
                                 /\ t_pc = "returned"
                                 /\ returned
                   ELSE /\ e.kind = "sleep"
                        /\ e.attempt = events[i - 1].attempt
                        /\ events[i - 1].result \in {"nonzero", "raised"}
                        /\ e.attempt < retries
                        /\ e.seconds = 15 * e.attempt
         /\ t_pc = "returned"
               => /\ events # <<>> => events[Len(events)].kind = "run"
                  /\ returned <=> \E i \in Runs : events[i].result = "zero"
                  /\ ~returned <=>
                        /\ Cardinality(Runs) = retries
                        /\ \A i \in Runs :
                              events[i].result \in {"nonzero", "raised"}
         /\ t_pc \notin {"called", "off"} => mkdir_called

\* three attempts allowed: one failed, one raised, the third succeeded, with
\* waits of 15 and 30 seconds in between
C27_Witness ==
    /\ t_pc = "returned"
    /\ returned
    /\ retries = 3
    /\ Len(events) = 5
    /\ events[1].result = "nonzero"
    /\ events[2].seconds = 15
    /\ events[3].result = "raised"
    /\ events[4].seconds = 30
    /\ events[5].result = "zero"

\* all attempts failed: False is returned with no wait after the last one
C27_AllFailedWitness ==
    /\ t_pc = "returned"
    /\ ~returned
    /\ retries = 2
    /\ Len(events) = 3

(* ------------------------ the score of one path ------------------------- *)

\* the components of the lower-cased path between '/' and '\' that have at
\* least three characters
LongParts(path) ==
    LET ps == Pieces(Lower(path), {"/", "\\"})
    IN  {ps[i] : i \in {k \in 1..Len(ps) : Len(ps[k]) >= 3}}

\* max(token_sort_ratio, partial_ratio) of the query and one component
BothRatios(query, part) ==
    LET t == TokenSortRatio(query, part)
        p == PartialRatio(query, part)
    IN  IF t.num * p.den >= p.num * t.den THEN t ELSE p

\* C25 (path score): the score of a path is the largest, over its components
\* of at least three characters, of max(token_sort_ratio, partial_ratio)
\* against the lower-cased course name, and 0 when it has no such component.
C25_PathScore ==
    Matched =>
        \A j \in 1..Len(match_paths) :
            LET query == Lower(course_name)
                score == ScorePathForCourse(query, match_paths[j])
                parts == LongParts(match_paths[j])
            IN  /\ parts = {} => score = ZeroScore
                /\ parts # {} =>
                      /\ \E p \in parts : score = BothRatios(query, p)
                      /\ \A p \in parts :
                            LET other == BothRatios(query, p)
                            IN  other.num * score.den <= score.num * other.den
                /\ \A i \in CandIdx :
                      candidates[i].path = match_paths[j]
                          => candidates[i].score = score

\* a returned path whose only component equal to the course name is too
\* short to count scores 0, and a path with longer components scores more
C25_Witness ==
    /\ Matched
    /\ \E i, j \in CandIdx :
          /\ LongParts(candidates[i].path) = {}
          /\ \E p \in Range(Pieces(Lower(candidates[i].path), {"/", "\\"})) :
                 p = Lower(course_name)
          /\ candidates[i].score = ZeroScore
          /\ Cardinality(LongParts(candidates[j].path)) >= 2
          /\ candidates[j].score.num > 0

(* ------------------ the order of the flat list (as_completed) ----------- *)
(* The loop of build_file_index once more, keeping the order in which the  *)
(* scans complete.  concurrent.futures.as_completed yields first the       *)
(* futures that were complete when it was called, in no particular order,  *)
(* and then every other future as it completes.                            *)

CollectInit ==
    /\ BuildIdle
    /\ MatchOff
    /\ ScanOff
    /\ DlOff
    /\ AuditOff
    /\ ReportOff
    /\ RetryOff
    /\ c_pc = "submitted"
    /\ c_roots \in DriveLists
    /\ c_futures = [i \in 1..Len(c_roots) |-> "pending"]
    /\ c_done = <<>>
    /\ c_batch = {}
    /\ c_yielded = <<>>
    /\ c_paths = <<>>

\* the scan of root i returns or raises in its worker
Complete(i, outcome) ==
    /\ c_pc \in {"submitted", "collecting"}
    /\ c_futures[i] = "pending"
    /\ c_futures' = [c_futures EXCEPT ![i] = outcome]
    /\ c_done' = Append(c_done, i)
    /\ UNCHANGED <<c_pc, c_roots, c_batch, c_yielded, c_paths>>
    /\ UNCHANGED <<vars, match_vars, scan_vars, dl_vars, audit_vars,
                   report_vars, retry_vars>>

\* as_completed(futures) is called: the futures complete by now are set
\* apart
AsCompleted ==
    /\ c_pc = "submitted"
    /\ c_batch' = {i \in DOMAIN c_futures : c_futures[i] # "pending"}
    /\ c_pc' = "collecting"
    /\ UNCHANGED <<c_roots, c_futures, c_done, c_yielded, c_paths>>
    /\ UNCHANGED <<vars, match_vars, scan_vars, dl_vars, audit_vars,
                   report_vars, retry_vars>>

\* the scans as_completed has yet to yield
Unyielded == DOMAIN c_futures \ Range(c_yielded)

\* any completed scan may be yielded next
MayYieldAny(i) ==
    /\ i \in Unyielded
    /\ c_futures[i] # "pending"

\* the scan as_completed may yield next: any of the first batch while some
\* are left, then the completed scan that completed first
MayYield(i) ==
    /\ i \in Unyielded
    /\ c_futures[i] # "pending"
    /\ IF c_batch \cap Unyielded # {} THEN i \in c_batch
       ELSE \A n, m \in DOMAIN c_done :
                (c_done[n] = i /\ c_done[m] \in Unyielded) => n <= m

\* one pass of the loop: the future is yielded and its result merged
Yield(i) ==
    /\ c_pc = "collecting"
    /\ MayYield(i)
    /\ c_yielded' = Append(c_yielded, i)
    /\ c_paths' = CollectFuture(c_paths, c_futures[i],
                                ScanSingleDrive(c_roots[i]))
    /\ UNCHANGED <<c_pc, c_roots, c_futures, c_done, c_batch>>
    /\ UNCHANGED <<vars, match_vars, scan_vars, dl_vars, audit_vars,
                   report_vars, retry_vars>>

\* every future was yielded: the loop ends
LoopEnd ==
    /\ c_pc = "collecting"
    /\ Unyielded = {}
    /\ c_pc' = "done"
    /\ UNCHANGED <<c_roots, c_futures, c_done, c_batch, c_yielded, c_paths>>
    /\ UNCHANGED <<vars, match_vars, scan_vars, dl_vars, audit_vars,
                   report_vars, retry_vars>>

CollectNext ==
    \/ \E i \in DOMAIN c_futures, outcome \in {"ok", "failed"} :
           Complete(i, outcome)
    \/ AsCompleted
    \/ \E i \in DOMAIN c_futures : Yield(i)
    \/ LoopEnd

CollectSpec == CollectInit /\ [][CollectNext]_<<vars, others>>

RECURSIVE Blocks(_)
\* the results of the successful scans named in order, one after another
Blocks(order) ==
    IF order = <<>> THEN <<>>
    ELSE (IF c_futures[Head(order)] = "ok"
          THEN ScanSingleDrive(c_roots[Head(order)]) ELSE <<>>)
           \o Blocks(Tail(order))

\* the path run_audit takes for a course and an asset from a flat list
Chosen(name, paths, threshold, hints) ==
    FindAssetInCandidates(MatchCoursePaths(name, paths, threshold), hints)

\* some course and asset get another path from one list than from the
\* other: the course names tried include one that scores 100 on a file of
\* each drive
OrderMatters(paths, other) ==
    \E name \in CourseNames \cup {<<"x">>}, threshold \in Thresholds,
       hints \in HintLists :
        Chosen(name, paths, threshold, hints)
            # Chosen(name, other, threshold, hints)

\* C28 as stated (flat list order): the returned list is the results of the
\* successful scans, each one contiguous block in scan order, the blocks in
\* the order the scans completed.
C28_BlocksInCompletionOrder ==
    c_pc = "done" => c_paths = Blocks(c_done)

\* C28 amended: the returned list is the results of the successful scans,
\* one contiguous block per entry of the root list, in the order
\* as_completed yielded them: the scans already complete when the loop
\* began come first, in any order, the others follow in the order they
\* completed.  The set of paths does not depend on that order; the list
\* does, and when another root's block comes first than in the order of the
\* root list, the path chosen for some course and asset is another one.
C28_BlocksInYieldOrder ==
    c_pc = "done"
    => /\ c_paths = Blocks(c_yielded)
       /\ Len(c_yielded) = Len(c_roots)
       /\ Range(c_yielded) = DOMAIN c_roots
       /\ Range(c_paths) = Range(Blocks(c_done))
       /\ Range(c_paths) = Range(Blocks([i \in DOMAIN c_roots |-> i]))
       /\ \A n, m \in DOMAIN c_yielded :
             (n < m /\ c_yielded[m] \in c_batch) => c_yielded[n] \in c_batch
       /\ \A n, m \in DOMAIN c_yielded :
             (n < m /\ c_yielded[n] \notin c_batch)
                 => \E a, b \in DOMAIN c_done :
                        /\ a < b
                        /\ c_done[a] = c_yielded[n]
                        /\ c_done[b] = c_yielded[m]
       /\ LET listed == Blocks([i \in DOMAIN c_roots |-> i])
          IN  (c_paths # <<>> /\ c_paths[1] # listed[1])
                  => OrderMatters(c_paths, listed)

\* the second root's scan completed first after the loop began, and its
\* block comes first in the list
C28_Witness ==
    /\ c_pc = "done"
    /\ c_batch = {}
    /\ c_done = <<2, 1>>
    /\ c_yielded = <<2, 1>>
    /\ c_roots = <<DriveD, DriveE>>
    /\ c_paths = ScanSingleDrive(DriveE) \o ScanSingleDrive(DriveD)
    /\ OrderMatters(c_paths,
                    ScanSingleDrive(DriveD) \o ScanSingleDrive(DriveE))

====
